---- MODULE Spec2Model ----
(***************************************************************************)
(* Brain Log pipeline of the Glass Box portfolio backend.                  *)
(*                                                                         *)
(*   backend/app/schemas/brain_log.py   log entries, BrainLogCollector,    *)
(*                                      the context variable              *)
(*   backend/app/main.py                the /chat handler and its          *)
(*                                      generate_with_brain_log generator  *)
(*   backend/app/agent.py               logged_tool                        *)
(*                                                                         *)
(* Text is a sequence of one-character strings.  An optional value is the  *)
(* empty sequence (None) or a one-element sequence (Some).  time.time()    *)
(* is a logical clock.  uuid4() is a fresh pair <<owner, serial>>.         *)
(***************************************************************************)
EXTENDS Integers, Sequences, FiniteSets, TLC

\* ------------------------------------------------------------------ bounds
MaxEntries == 3      \* entries a driver of one collector creates
MaxUpdates == 1      \* update_tool_call calls a driver of one collector makes
MaxTime == 2         \* ticks of the clock in the collector specifications
MaxChunks == 4       \* chunks the upstream of a lone request yields
MaxConcChunks == 1   \* chunks the upstream yields when requests run side by side
MaxToolChunks == 2   \* chunks the upstream yields while logged tools run
MaxToolCalls == 1    \* logged tool calls the agent makes in one request
MaxHooks == 3        \* hooks the runtime calls between before_stream and after_stream
MaxTapTime == 1      \* ticks of the clock while the stream tap runs
MaxMessages == 2     \* messages in the body of a request

\* --------------------------------------------------------------- basic data
None == <<>>
Some(x) == <<x>>

\* Python truthiness of an optional string: not None and not "".
Truthy(opt) == opt # None /\ opt[1] # <<>>

\* the same for a name, which is kept as one string
TruthyName(opt) == opt # None /\ opt[1] # ""

Ellipsis == <<".", ".", ".">>

\* s[:bound] + "..." if len(s) > bound else s
Preview_at_bound(s, bound) ==
    IF Len(s) >= bound THEN SubSeq(s, 1, bound) \o Ellipsis ELSE s

Preview(s, bound) ==
    IF Len(s) > bound THEN SubSeq(s, 1, bound) \o Ellipsis ELSE s

InputPreviewLen == 100
TextPreviewLen == 200

\* dict literal / dict item assignment
Dict1(k, v) == [x \in {k} |-> v]
DictSet(d, k, v) == [x \in (DOMAIN d) \cup {k} |-> IF x = k THEN v ELSE d[x]]

EmptyDict == [x \in {} |-> None]

\* ---------------------------------------------------------------- entries
\* BrainLogEntry(...): id and timestamp come from the default factories.
BrainLogEntry(id, now, type, title, details, status, duration_ms) ==
    [id |-> id, timestamp |-> now, type |-> type, title |-> title,
     details |-> details, status |-> status, duration_ms |-> duration_ms]

InputLogEntry_create(id, now, message, message_length) ==
    BrainLogEntry(id, now, "input", <<"User message received">>,
        DictSet(Dict1("message_preview", Preview(message, InputPreviewLen)),
                "length", message_length),
        "success", None)

RoutingLogEntry_create(id, now, selected_tool, reason) ==
    BrainLogEntry(id, now, "routing",
        IF TruthyName(selected_tool) THEN <<"Selected tool: ", selected_tool[1]>>
                                     ELSE <<"Direct response (no tool)">>,
        IF TruthyName(selected_tool)
            THEN DictSet(Dict1("reason", reason), "selected_tool", selected_tool[1])
            ELSE Dict1("reason", reason),
        "success", None)

ThinkingLogEntry_create(id, now, thinking_text) ==
    BrainLogEntry(id, now, "thinking", <<"Model reasoning">>,
        DictSet(Dict1("preview", Preview(thinking_text, TextPreviewLen)),
                "length", Len(thinking_text)),
        "success", None)

TextLogEntry_create(id, now, text, is_partial) ==
    BrainLogEntry(id, now, "text",
        IF is_partial THEN <<"Text chunk">> ELSE <<"Text response">>,
        DictSet(DictSet(Dict1("preview", Preview(text, TextPreviewLen)),
                        "length", Len(text)),
                "is_partial", is_partial),
        "success", None)

ToolCallLogEntry_create_empty_preview(id, now, tool_name, arguments, result_preview, status, error, duration_ms) ==
    LET d0 == DictSet(Dict1("tool", tool_name), "arguments", arguments)
        d1 == IF result_preview # None
                 THEN DictSet(d0, "result_preview", result_preview[1]) ELSE d0
        d2 == IF Truthy(error) THEN DictSet(d1, "error", error[1]) ELSE d1
    IN  BrainLogEntry(id, now, "tool_call", <<"Tool call: ", tool_name>>,
            d2, status, duration_ms)

ToolCallLogEntry_create(id, now, tool_name, arguments, result_preview, status, error, duration_ms) ==
    LET d0 == DictSet(Dict1("tool", tool_name), "arguments", arguments)
        d1 == IF Truthy(result_preview)
                 THEN DictSet(d0, "result_preview", result_preview[1]) ELSE d0
        d2 == IF Truthy(error) THEN DictSet(d1, "error", error[1]) ELSE d1
    IN  BrainLogEntry(id, now, "tool_call", <<"Tool call: ", tool_name>>,
            d2, status, duration_ms)

ToolCallLogEntry_create_pending_done(id, now, tool_name, arguments) ==
    BrainLogEntry(id, now, "tool_call", <<"Calling ", tool_name, "...">>,
        DictSet(Dict1("tool", tool_name), "arguments", arguments),
        "success", None)

ToolCallLogEntry_create_pending(id, now, tool_name, arguments) ==
    BrainLogEntry(id, now, "tool_call", <<"Calling ", tool_name, "...">>,
        DictSet(Dict1("tool", tool_name), "arguments", arguments),
        "pending", None)

ToolResultLogEntry_create(id, now, tool_name, result_preview, status, error, duration_ms) ==
    LET d0 == Dict1("tool", tool_name)
        d1 == IF Truthy(result_preview)
                 THEN DictSet(d0, "result_preview", result_preview[1]) ELSE d0
        d2 == IF Truthy(error) THEN DictSet(d1, "error", error[1]) ELSE d1
    IN  BrainLogEntry(id, now, "tool_result",
            IF status = "failure" THEN <<"Tool failed: ", tool_name>>
                                  ELSE <<"Tool result: ", tool_name>>,
            d2, status, duration_ms)

PerformanceLogEntry_create(id, now, ttft_ms, total_ms) ==
    LET d0 == EmptyDict
        d1 == IF ttft_ms # None THEN DictSet(d0, "ttft_ms", ttft_ms[1]) ELSE d0
        d2 == IF total_ms # None THEN DictSet(d1, "total_ms", total_ms[1]) ELSE d1
    IN  BrainLogEntry(id, now, "performance", <<"Request complete">>,
            d2, "success", total_ms)

\* -------------------------------------------------------------- collector
\* entries and _pending hold references: they are sequences of ids, and the
\* objects live in _entry_id_map.  _entry_id_map is a dict: _entry_id_order
\* is the order in which its keys were inserted.
BrainLogCollector(now) ==
    [entries |-> <<>>, _pending |-> <<>>, _start_time |-> now,
     first_token_time |-> None, _entry_id_map |-> [x \in {} |-> None],
     _entry_id_order |-> <<>>]

add_front(c, entry) ==
    [c EXCEPT !.entries = <<entry.id>> \o @,
              !._pending = <<entry.id>> \o @,
              !._entry_id_map = [x \in (DOMAIN @) \cup {entry.id} |->
                                    IF x = entry.id THEN entry ELSE @[x]]]

add(c, entry) ==
    [c EXCEPT !.entries = Append(@, entry.id),
              !._pending = Append(@, entry.id),
              !._entry_id_map = [x \in (DOMAIN @) \cup {entry.id} |->
                                    IF x = entry.id THEN entry ELSE @[x]],
              !._entry_id_order = IF entry.id \in DOMAIN c._entry_id_map
                                      THEN @ ELSE Append(@, entry.id)]

\* get_pending_entries: the returned list, as references
get_pending_entries_result(c) == c.entries

get_pending_entries_keep(c) == [c EXCEPT !._pending = <<>>]

\* get_pending_entries: the collector afterwards
get_pending_entries(c) == [c EXCEPT !.entries = <<>>, !._pending = <<>>]

\* the objects a list of references points to, read now
Deref(c, refs) == [i \in 1..Len(refs) |-> c._entry_id_map[refs[i]]]

get_all_entries_from_entries(c) == Deref(c, c.entries)

\* list(self._entry_id_map.values())
get_all_entries(c) == Deref(c, c._entry_id_order)

record_first_token_overwrite(c, now) == [c EXCEPT !.first_token_time = Some(now)]

record_first_token(c, now) ==
    IF c.first_token_time = None
        THEN [c EXCEPT !.first_token_time = Some(now)]
        ELSE c

get_ttft_ms(c) ==
    IF c.first_token_time = None
        THEN None
        ELSE Some((c.first_token_time[1] - c._start_time) * 1000)

get_total_ms(c, now) == (now - c._start_time) * 1000

add_input_entry_no_length(c, id, now, message) ==
    add(c, InputLogEntry_create(id, now, message, 0))

add_input_entry(c, id, now, message) ==
    add(c, InputLogEntry_create(id, now, message, Len(message)))

add_routing_entry(c, id, now, selected_tool, reason) ==
    add(c, RoutingLogEntry_create(id, now, selected_tool, reason))

add_tool_call_pending(c, id, now, tool_name, arguments) ==
    add(c, ToolCallLogEntry_create_pending(id, now, tool_name, arguments))

update_tool_call_queue_unknown(c, entry_id, status, result_preview, error, duration_ms) ==
    [c EXCEPT !._pending = Append(@, entry_id)]

update_tool_call(c, entry_id, status, result_preview, error, duration_ms) ==
    IF entry_id \notin DOMAIN c._entry_id_map
        THEN c
        ELSE LET e0 == c._entry_id_map[entry_id]
                 d1 == IF Truthy(result_preview)
                          THEN DictSet(e0.details, "result_preview", result_preview[1])
                          ELSE e0.details
                 d2 == IF Truthy(error) THEN DictSet(d1, "error", error[1]) ELSE d1
                 tool_name == IF "tool" \in DOMAIN d2 THEN d2["tool"] ELSE "unknown"
                 title == CASE status = "success" -> <<"Tool call: ", tool_name>>
                            [] status = "failure" -> <<"Tool call failed: ", tool_name>>
                            [] OTHER -> e0.title
                 e1 == [e0 EXCEPT !.status = status, !.duration_ms = duration_ms,
                                  !.details = d2, !.title = title]
             IN  [c EXCEPT !._entry_id_map[entry_id] = e1,
                           !.entries = Append(@, entry_id),
                           !._pending = Append(@, entry_id)]

add_tool_call_complete(c, id, now, tool_name, arguments, result_preview, status, error, duration_ms) ==
    add(c, ToolCallLogEntry_create(id, now, tool_name, arguments, result_preview,
                                   status, error, duration_ms))

add_performance_entry(c, id, now, ttft_ms, total_ms) ==
    add(c, PerformanceLogEntry_create(id, now, ttft_ms, total_ms))

add_thinking_entry(c, id, now, thinking_text) ==
    add(c, ThinkingLogEntry_create(id, now, thinking_text))

add_text_entry(c, id, now, text) ==
    add(c, TextLogEntry_create(id, now, text, FALSE))

add_tool_result_entry_pending(c, id, now, tool_name, result_preview, status, error, duration_ms) ==
    add(c, ToolResultLogEntry_create(id, now, tool_name, result_preview,
                                     "pending", error, duration_ms))

add_tool_result_entry(c, id, now, tool_name, result_preview, status, error, duration_ms) ==
    add(c, ToolResultLogEntry_create(id, now, tool_name, result_preview,
                                     status, error, duration_ms))

\* ======================================================================
\* One collector driven through its public methods (the unit tests' view).
\* ======================================================================
VARIABLES
    collector,      \* the BrainLogCollector under test
    now,            \* time.time()
    nextSerial,     \* entries created so far (serial of the next uuid)
    nUpdates,       \* update_tool_call calls made so far
    updId,          \* history: the entry_id of the last update_tool_call call
    lastDrain,      \* what the last get_pending_entries returned (the objects)
    addedSince,     \* history: ids passed to add since the previous drain
    expectDrain,    \* history: addedSince at the moment of the last drain
    addedAll,       \* history: ids passed to add, in call order
    drainedAll,     \* history: concatenation of all drain results (ids)
    lastUpdate,     \* history: the update_tool_call(X, SUCCESS, ..) of a PENDING
                    \*   tool call X made last, if no other method ran since
    updBeforeDrain, \* history: lastUpdate at the moment of the last drain
    firstCall,      \* history: time of the first record_first_token call
    nFirstCalls     \* history: record_first_token calls made so far

collVars == <<collector, now, nextSerial, nUpdates, updId, lastDrain,
              addedSince, expectDrain, addedAll, drainedAll, lastUpdate,
              updBeforeDrain, firstCall, nFirstCalls>>

histAddVars == <<lastDrain, expectDrain, drainedAll, updBeforeDrain>>
firstVars == <<firstCall, nFirstCalls>>

Messages == { <<"h", "i">> }
Texts == { <<"a", "b">> }
ToolNames == { "get_skills" }
BogusId == <<0, 0>>

\* a collector constructed at time t0
CollectorInitAt(t0) ==
    /\ collector = BrainLogCollector(t0)
    /\ now = t0
    /\ nextSerial = 0
    /\ nUpdates = 0
    /\ updId = None
    /\ lastDrain = <<>>
    /\ addedSince = <<>>
    /\ expectDrain = <<>>
    /\ addedAll = <<>>
    /\ drainedAll = <<>>
    /\ lastUpdate = None
    /\ updBeforeDrain = None
    /\ firstCall = None
    /\ nFirstCalls = 0

CollectorInit == CollectorInitAt(0)

\* the bookkeeping every add-like call shares
Added(c2, id) ==
    /\ collector' = c2
    /\ nextSerial' = nextSerial + 1
    /\ addedSince' = Append(addedSince, id)
    /\ addedAll' = Append(addedAll, id)
    /\ lastUpdate' = None
    /\ UNCHANGED <<now, nUpdates, updId, histAddVars, firstVars>>

\* collector.add_input_entry(message)
CollAddInput ==
    /\ nextSerial < MaxEntries
    /\ \E m \in Messages :
         LET id == <<0, nextSerial + 1>>
         IN  Added(add_input_entry(collector, id, now, m), id)

\* collector.add_thinking_entry(text)
CollAddThinking ==
    /\ nextSerial < MaxEntries
    /\ \E t \in Texts :
         LET id == <<0, nextSerial + 1>>
         IN  Added(add_thinking_entry(collector, id, now, t), id)

\* collector.add_tool_call_pending(tool_name, {})
CollAddToolCallPending ==
    /\ nextSerial < MaxEntries
    /\ \E t \in ToolNames :
         LET id == <<0, nextSerial + 1>>
         IN  Added(add_tool_call_pending(collector, id, now, t, EmptyDict), id)

\* collector.get_pending_entries()
CollGetPending ==
    /\ lastDrain' = Deref(collector, get_pending_entries_result(collector))
    /\ collector' = get_pending_entries(collector)
    /\ expectDrain' = addedSince
    /\ addedSince' = <<>>
    /\ drainedAll' = drainedAll \o get_pending_entries_result(collector)
    /\ updBeforeDrain' = lastUpdate
    /\ lastUpdate' = None
    /\ UNCHANGED <<now, nextSerial, nUpdates, updId, addedAll, firstVars>>

UpdateArgs ==
    { [status |-> "success", result_preview |-> Some(<<"o", "k">>), error |-> None,
       duration_ms |-> Some(100)],
      [status |-> "failure", result_preview |-> None, error |-> Some(<<"n", "o">>),
       duration_ms |-> None] }

\* collector.update_tool_call(entry_id, status, result_preview, error, duration_ms)
CollUpdateToolCall ==
    /\ nUpdates < MaxUpdates
    /\ \E id \in (DOMAIN collector._entry_id_map) \cup {BogusId}, a \in UpdateArgs :
         /\ collector' = update_tool_call(collector, id, a.status, a.result_preview,
                                          a.error, a.duration_ms)
         /\ lastUpdate' =
              IF /\ id \in DOMAIN collector._entry_id_map
                 /\ collector._entry_id_map[id].type = "tool_call"
                 /\ collector._entry_id_map[id].status = "pending"
                 /\ a.status = "success"
              THEN Some([id |-> id, args |-> a,
                         before |-> collector._entry_id_map[id],
                         drained |-> \A i \in DOMAIN collector.entries :
                                         collector.entries[i] # id])
              ELSE None
         /\ updId' = Some(id)
    /\ nUpdates' = nUpdates + 1
    /\ UNCHANGED <<now, nextSerial, addedSince, addedAll, histAddVars, firstVars>>

\* collector.record_first_token()
CollRecordFirstToken ==
    /\ collector' = record_first_token(collector, now)
    /\ firstCall' = IF nFirstCalls = 0 THEN Some(now) ELSE firstCall
    /\ nFirstCalls' = IF nFirstCalls < 2 THEN nFirstCalls + 1 ELSE nFirstCalls
    /\ lastUpdate' = None
    /\ UNCHANGED <<now, nextSerial, nUpdates, updId, addedSince, addedAll, histAddVars>>

\* time passes
CollTick ==
    /\ now < MaxTime
    /\ now' = now + 1
    /\ UNCHANGED <<collector, nextSerial, nUpdates, updId, addedSince, addedAll,
                   lastUpdate, histAddVars, firstVars>>

\* ======================================================================
\* The /chat endpoint: handler, response generator, logged tools.
\* ======================================================================
VARIABLES
    env,                \* what the surroundings of this run may do (fixed)
    attribution,        \* per request: its tokenledger attribution context is active
    pc,                 \* per request: where the handler / generator stands
    coll,               \* per request: the collector the handler created
    ctx,                \* per request context: value of _brain_log_collector_var
    serial,             \* per request: entries created so far
    clk,                \* per request: time.time() as the request sees it
    upstream,           \* per request: chunks body_iterator has yielded
    upstate,            \* per request: "open", "exhausted" or "error"
    arrival,            \* history, per request: when each chunk was received
    out,                \* per request: what the generator has yielded
    reasoning_buffers,  \* per request: local of generate_with_brain_log
    text_buffers,       \* per request: local of generate_with_brain_log
    first_text_logged,  \* per request: local of generate_with_brain_log
    tool                \* per request: the logged_tool call in progress

chatVars == <<env, attribution, pc, coll, ctx, serial, clk, upstream, upstate, arrival, out,
              reasoning_buffers, text_buffers, first_text_logged, tool>>

\* ======================================================================
\* The stream tap: one BrainLogEventStream driven through its hooks by the
\* agent runtime, over the collector above.
\* ======================================================================
VARIABLES
    stream,     \* the BrainLogEventStream: _collector, _first_text_emitted,
                \*   _tool_start_times
    emitted,    \* the chunks the hooks have yielded, in order
    parentOut,  \* history: the chunks the parent's hooks have yielded, in order
    phase,      \* where the runtime stands: "new", "streaming", "finished"
    nHooks,     \* hooks called so far
    lastHook    \* history: the hook called last, with `emitted` before it

tapVars == <<stream, emitted, parentOut, phase, nHooks, lastHook>>

\* ======================================================================
\* A function of the backend applied to one input.
\* ======================================================================
VARIABLES
    given,  \* the input
    gave    \* None until the function was applied, then what it returned

pureVars == <<given, gave>>

\* ======================================================================
\* The process-wide LSPManager and the coroutines that ask for it.
\* ======================================================================
VARIABLES
    lsp_manager,    \* the global _lsp_manager: None, or the manager (its number)
    managers,       \* every LSPManager created so far, in order of creation
    tasks,          \* per coroutine: the call it makes and where it stands
    running         \* the coroutine that holds the event loop, if one does

mgrVars == <<lsp_manager, managers, tasks, running>>

MaxTasks == 3

Tasks == 1..MaxTasks

\* LSPManager(workspace_root); live: created and not shut down (history)
LSPManager(workspace_root) ==
    [workspace_root |-> workspace_root, _clients |-> {}, _initialized |-> FALSE,
     live |-> TRUE]

NewTask ==
    [op |-> "none", pc |-> "ready", workspace_root |-> None, self |-> 0, ret |-> None,
     raised |-> FALSE]

MgrInit ==
    /\ lsp_manager = None
    /\ managers = <<>>
    /\ tasks = [t \in Tasks |-> NewTask]
    /\ running = None

\* ======================================================================
\* One LSPClient and the language server process it talks to.
\* ======================================================================
VARIABLES
    client,     \* the LSPClient: process, _initialized, request_id
    server,     \* the process of the client: alive, its stdin and stdout pipes
    lspTask,    \* the method of the client that is running, and where it stands
    lspLog,     \* history: the method that returned last, and what it returned
    nLspCalls,  \* methods called so far
    nNoise,     \* messages the server has sent unasked
    spins       \* history: reads that met the end of the server's output,
                \*   counted up to MaxSpins and then from 0 again

clientVars == <<client, server, lspTask, lspLog, nLspCalls, nNoise, spins>>

lspVars == <<clientVars, mgrVars>>

vars == <<collVars, chatVars, tapVars, pureVars, lspVars>>

MaxLspCalls == 3
MaxNoise == 1
MaxSpins == 1

\* the query operations of LSPClient
Queries ==
    {"go_to_definition", "find_references", "hover", "document_symbols",
     "workspace_symbols", "prepare_call_hierarchy", "incoming_calls"}

\* the queries that open the document before the request and close it after
NeedsDocument == Queries \ {"workspace_symbols", "incoming_calls"}

\* what a query returns when it has nothing, and when it has something
Empty(q) == IF q = "hover" THEN "None" ELSE "[]"
Full(q) == IF q = "hover" THEN "HoverResult" ELSE "items"

\* a message of the client (id 0: a notification, it has no id)
Request(id, method) == [id |-> id, method |-> method]
Notification(method) == [id |-> 0, method |-> method]

\* a message of the server: result "data" is a non-empty result, "null" is
\* None or an empty one; id 0: the message has no id
Response(id, kind, result) == [id |-> id, kind |-> kind, result |-> result]

\* LSPClient(server_type=...)
LSPClient == [process |-> None, _initialized |-> FALSE, request_id |-> 0]

\* subprocess.Popen(cmd, stdin=PIPE, stdout=PIPE, ...)
Popen == [alive |-> TRUE, stdin |-> <<>>, stdout |-> <<>>, answered |-> 0]

NoProcess == [alive |-> FALSE, stdin |-> <<>>, stdout |-> <<>>, answered |-> 0]

LspIdle == [op |-> "none", pc |-> "idle", result |-> "null"]

LspInit ==
    /\ client = LSPClient
    /\ server = NoProcess
    /\ lspTask = LspIdle
    /\ lspLog = [op |-> "none", ret |-> "None", call |-> 0]
    /\ nLspCalls = 0
    /\ nNoise = 0
    /\ spins = 0
    /\ MgrInit

Requests == {1, 2}
StreamIds == {"s1", "s2"}

\* ----------------------------------------------------------- SSE chunks
\* A chunk is the sequence of its lines (chunk_str.split("\n")).  A line is
\*   [k |-> "blank"]                  does not start with "data: "
\*   [k |-> "done"]                   data: [DONE]
\*   [k |-> "badjson"]                data: <not JSON>
\*   [k |-> "scalar"]                 data: <JSON that is not an object>
\*   [k |-> "object", event |-> d]    data: <JSON object d>
Blank == [k |-> "blank"]
DataLine(kind) == [k |-> kind]
EventLine(d) == [k |-> "object", event |-> d]

\* "data: ...\n\n" splits into the data line and two empty lines
SSE(line) == <<line, Blank, Blank>>

Ev(type, id) == DictSet(Dict1("type", type), "id", id)
EvDelta(type, id, delta) == DictSet(Ev(type, id), "delta", delta)

\* event.get(key, default)
DictGet(d, k, default) == IF k \in DOMAIN d THEN d[k] ELSE default

\* one event per chunk, as the adapter sends them
StreamChunks(kind, ids, deltas) ==
    { SSE(EventLine(Ev(kind \o "-start", i))) : i \in ids }
    \cup { SSE(EventLine(EvDelta(kind \o "-delta", i, d))) : i \in ids, d \in deltas }
    \cup { SSE(EventLine(Ev(kind \o "-end", i))) : i \in ids }

JunkChunks ==
    { SSE(DataLine("done")), SSE(DataLine("badjson")), SSE(DataLine("scalar")),
      SSE(EventLine(Ev("tool-input-start", "s1"))) }

\* a whole text stream delivered in one chunk
TextBurst(id, delta) ==
    <<EventLine(Ev("text-start", id)), Blank,
      EventLine(EvDelta("text-delta", id, delta)), Blank,
      EventLine(Ev("text-end", id)), Blank, Blank>>

\* ------------------------------------------- dicts that keep insertion order
\* reasoning_buffers / text_buffers: keys in insertion order, and the values
EmptyBuffers == [keys |-> <<>>, val |-> [x \in {} |-> <<>>]]

BufHas(b, k) == k \in DOMAIN b.val

\* b[k] = v
BufSet(b, k, v) ==
    [keys |-> IF BufHas(b, k) THEN b.keys ELSE Append(b.keys, k),
     val |-> [x \in (DOMAIN b.val) \cup {k} |-> IF x = k THEN v ELSE b.val[x]]]

\* b.pop(k): the dict afterwards
BufPop(b, k) ==
    [keys |-> SelectSeq(b.keys, LAMBDA x : x # k),
     val |-> [x \in (DOMAIN b.val) \ {k} |-> b.val[x]]]

\* list(b.values())
BufValues(b) == [i \in 1..Len(b.keys) |-> b.val[b.keys[i]]]

\* ------------------------------------------------------------ wire format
to_stream_dict(entry) ==
    [id |-> entry.id, timestamp |-> entry.timestamp * 1000, type |-> entry.type,
     title |-> entry.title, details |-> entry.details, status |-> entry.status,
     duration_ms |-> entry.duration_ms]

\* _format_data_chunk: data: {"type": "data-brainlog", "data": {...}}\n\n
format_data_chunk(data) == [type |-> "data-brainlog", data |-> data]

\* items of the response body: an upstream chunk, or a brain-log frame
Primary(chunk) == [src |-> "upstream", chunk |-> chunk]
Frame(entry) == [src |-> "brainlog", chunk |-> format_data_chunk(to_stream_dict(entry))]

\* no function is under study
PureIdle ==
    /\ given = None
    /\ gave = None

\* ------------------------------------------------------- the generator body
\* The locals of generate_with_brain_log and what it shares with the handler:
\*   c collector, o yielded so far, rb reasoning_buffers, tb text_buffers,
\*   ftl first_text_logged, n entries created, t time.time(), r the request,
\*   raised an exception left the generator

\* for entry in collector.get_pending_entries(): yield _format_data_chunk(...)
EmitPending(g) ==
    LET drained == Deref(g.c, get_pending_entries_result(g.c))
    IN  [g EXCEPT !.o = @ \o [i \in 1..Len(drained) |-> Frame(drained[i])],
                  !.c = get_pending_entries(@)]

AddThinking(g, text) ==
    [g EXCEPT !.c = add_thinking_entry(@, <<g.r, g.n + 1>>, g.t, text),
              !.n = @ + 1]

AddText(g, text) ==
    [g EXCEPT !.c = add_text_entry(@, <<g.r, g.n + 1>>, g.t, text),
              !.n = @ + 1]

\* main.py lines 302-303
OnReasoningStart_first_token(g, event_id) ==
    [g EXCEPT !.rb = BufSet(@, event_id, <<>>),
              !.c = record_first_token(@, g.t)]

OnReasoningStart(g, event_id) ==
    [g EXCEPT !.rb = BufSet(@, event_id, <<>>)]

\* main.py lines 304-306
OnReasoningDelta_prepend(g, event_id, delta) ==
    IF BufHas(g.rb, event_id)
        THEN [g EXCEPT !.rb = BufSet(@, event_id, delta \o @.val[event_id])]
        ELSE g

OnReasoningDelta(g, event_id, delta) ==
    IF BufHas(g.rb, event_id)
        THEN [g EXCEPT !.rb = BufSet(@, event_id, @.val[event_id] \o delta)]
        ELSE g

\* main.py lines 307-313
OnReasoningEnd(g, event_id) ==
    IF BufHas(g.rb, event_id)
        THEN LET text == g.rb.val[event_id]
                 g1 == [g EXCEPT !.rb = BufPop(@, event_id)]
             IN  IF text # <<>> THEN EmitPending(AddThinking(g1, text)) ELSE g1
        ELSE g

\* main.py lines 316-321
OnTextStart(g, event_id) ==
    LET g1 == [g EXCEPT !.tb = BufSet(@, event_id, <<>>)]
    IN  IF ~g1.ftl
            THEN [g1 EXCEPT !.c = record_first_token(@, g.t), !.ftl = TRUE]
            ELSE g1

\* main.py lines 322-327
OnTextDelta_opens(g, event_id, delta) ==
    LET g1 == [g EXCEPT !.tb = BufSet(@, event_id,
                                  IF BufHas(g.tb, event_id) THEN g.tb.val[event_id] \o delta
                                                            ELSE delta)]
    IN  IF ~BufHas(g.tb, event_id) /\ ~g.ftl
            THEN [g1 EXCEPT !.c = record_first_token(@, g.t), !.ftl = TRUE]
            ELSE g1

OnTextDelta(g, event_id, delta) ==
    IF BufHas(g.tb, event_id)
        THEN [g EXCEPT !.tb = BufSet(@, event_id, @.val[event_id] \o delta)]
        ELSE IF ~g.ftl
            THEN [g EXCEPT !.c = record_first_token(@, g.t), !.ftl = TRUE]
            ELSE g

\* main.py lines 328-334
OnTextEnd(g, event_id) ==
    IF BufHas(g.tb, event_id)
        THEN LET text == g.tb.val[event_id]
                 g1 == [g EXCEPT !.tb = BufPop(@, event_id)]
             IN  IF text # <<>> THEN EmitPending(AddText(g1, text)) ELSE g1
        ELSE g

\* main.py lines 298-334: one parsed event
HandleEvent(g, event) ==
    LET event_type == DictGet(event, "type", "")
        event_id == DictGet(event, "id", "")
        delta == DictGet(event, "delta", <<>>)
    IN  CASE event_type = "reasoning-start" -> OnReasoningStart(g, event_id)
          [] event_type = "reasoning-delta" -> OnReasoningDelta(g, event_id, delta)
          [] event_type = "reasoning-end" -> OnReasoningEnd(g, event_id)
          [] event_type = "text-start" -> OnTextStart(g, event_id)
          [] event_type = "text-delta" -> OnTextDelta(g, event_id, delta)
          [] event_type = "text-end" -> OnTextEnd(g, event_id)
          [] OTHER -> g

\* main.py lines 288-334: one line of the chunk
HandleLine_unknown_type_fatal(g, line) ==
    CASE line.k = "blank" -> g
      [] line.k = "done" -> g
      [] line.k = "badjson" -> g
      [] line.k = "scalar" -> [g EXCEPT !.raised = TRUE]
      [] DictGet(line.event, "type", "") \in
             {"reasoning-start", "reasoning-delta", "reasoning-end",
              "text-start", "text-delta", "text-end"} -> HandleEvent(g, line.event)
      [] OTHER -> [g EXCEPT !.raised = TRUE]

HandleLine(g, line) ==
    CASE line.k = "blank" -> g                          \* not a data line
      [] line.k = "done" -> g                           \* [DONE]
      [] line.k = "badjson" -> g                        \* JSONDecodeError
      [] line.k = "scalar" -> [g EXCEPT !.raised = TRUE] \* event.get: AttributeError
      [] OTHER -> HandleEvent(g, line.event)

RECURSIVE HandleLines(_, _, _)
HandleLines(g, lines, i) ==
    IF i > Len(lines) \/ g.raised
        THEN g
        ELSE HandleLines(HandleLine(g, lines[i]), lines, i + 1)

\* main.py lines 283-334: `yield chunk`, then the chunk's lines
HandleChunk_yield_after(g, chunk) ==
    LET g1 == HandleLines(g, chunk, 1)
    IN  [g1 EXCEPT !.o = Append(@, Primary(chunk))]

HandleChunk(g, chunk) ==
    HandleLines([g EXCEPT !.o = Append(@, Primary(chunk))], chunk, 1)

FlushTexts_none(g, texts, i) == g

RECURSIVE FlushTexts(_, _, _)
FlushTexts(g, texts, i) ==
    IF i > Len(texts)
        THEN g
        ELSE FlushTexts(IF texts[i] # <<>> THEN EmitPending(AddText(g, texts[i])) ELSE g,
                        texts, i + 1)

FinishStream_no_drain(g) ==
    LET g1 == FlushTexts(g, BufValues(g.tb), 1)
    IN  [g1 EXCEPT !.c = add_performance_entry(@, <<g1.r, g1.n + 1>>, g1.t,
                             get_ttft_ms(g1.c), Some(get_total_ms(g1.c, g1.t))),
                   !.n = @ + 1]

\* main.py lines 340-355: after the loop
FinishStream(g) ==
    LET g1 == FlushTexts(g, BufValues(g.tb), 1)
        total_ms == get_total_ms(g1.c, g1.t)
        ttft_ms == get_ttft_ms(g1.c)
        g2 == [g1 EXCEPT !.c = add_performance_entry(@, <<g1.r, g1.n + 1>>, g1.t,
                                                     ttft_ms, Some(total_ms)),
                         !.n = @ + 1]
    IN  EmitPending(g2)

\* ------------------------------------------------------- request payload
\* A JSON value is tagged with its Python type:
\*   [t |-> "str", v |-> text]       a string
\*   [t |-> "list", items |-> <<..>>] a list of JSON values
\*   [t |-> "dict", d |-> d]         an object; "role" and "type" hold short
\*                                   strings as they are, other keys hold
\*                                   JSON values
\*   [t |-> "other", repr |-> text]  null or a number, with its str() form
Str(text) == [t |-> "str", v |-> text]
JList(items) == [t |-> "list", items |-> items]
JDict(d) == [t |-> "dict", d |-> d]
Other(repr) == [t |-> "other", repr |-> repr]

\* what a call gives: a value, or an exception
Returned(value) == [raised |-> FALSE, value |-> value]
Raised == [raised |-> TRUE, value |-> Str(<<>>)]

\* main.py lines 176-186: content is a list of parts
RECURSIVE extract_from_parts(_, _)
extract_from_parts(parts, i) ==
    IF i > Len(parts)
        THEN Str(<<>>)                  \* " ".join of no non-empty text
        ELSE LET part == parts[i]
             IN  IF part.t = "dict"
                     THEN IF DictGet(part.d, "type", "") = "text"
                              THEN DictGet(part.d, "text", Str(<<>>))
                              ELSE IF "text" \in DOMAIN part.d
                                       THEN part.d["text"]
                                       ELSE extract_from_parts(parts, i + 1)
                     ELSE extract_from_parts(parts, i + 1)

\* main.py lines 169-188: for msg in reversed(messages)
RECURSIVE extract_from(_, _)
extract_from(messages, i) ==
    IF i = 0
        THEN Returned(Str(<<>>))
        ELSE LET msg == messages[i]
             IN  IF msg.t # "dict"
                     THEN Raised                \* msg.get: AttributeError
                     ELSE IF DictGet(msg.d, "role", "") = "user"
                         THEN LET content == DictGet(msg.d, "content", Str(<<>>))
                              IN  CASE content.t = "str" -> Returned(content)
                                    [] content.t = "list" ->
                                          Returned(extract_from_parts(content.items, 1))
                                    [] content.t = "dict" -> Returned(Str(<<"{", "}">>))
                                    [] OTHER -> Returned(Str(content.repr))
                         ELSE extract_from(messages, i - 1)

\* main.py lines 167-188: _extract_user_message
extract_user_message(messages) ==
    IF messages.t = "list"
        THEN extract_from(messages.items, Len(messages.items))
        ELSE Raised                     \* reversed(None), reversed(5): TypeError

\* main.py lines 226-236: the user message chat works with, from the
\* request body ([t |-> "invalid"] is a body that is not JSON)
chat_user_message(body) ==
    CASE body.t = "invalid" -> Raised               \* json.loads: JSONDecodeError
      [] body.t # "dict" -> Raised                  \* body.get: AttributeError
      [] OTHER ->
           LET r == extract_user_message(DictGet(body.d, "messages", JList(<<>>)))
           IN  IF ~r.raised /\ r.value.t = "other"
                   THEN Raised                      \* message[:100]: TypeError
                   ELSE r

Msg(role, content) == JDict(DictSet(Dict1("role", role), "content", content))

UserPayload ==
    JList(<<Msg("user", Str(<<"h", "i">>)), Msg("assistant", Str(<<"y", "o">>))>>)

Payloads == { UserPayload, JList(<<Msg("assistant", Str(<<"y", "o">>))>>) }

\* ------------------------------------------------------ context variable
\* _brain_log_collector_var is a ContextVar: each request's task has its own
\* context, so a value set in one is not seen in another.  A collector is
\* referred to by the request that created it.
set_brain_log_collector_global(cx, r, v) == [q \in DOMAIN cx |-> v]

set_brain_log_collector(cx, r, v) == [cx EXCEPT ![r] = v]

get_brain_log_collector(cx, r) == cx[r]

\* ---------------------------------------------------------- surroundings
A == <<"a">>
B == <<"b">>

\* how the body of a tool ends: it returns, or raises an exception e with
\* str(e) = text
Returns == [ok |-> TRUE, text |-> <<>>]
Raises(text) == [ok |-> FALSE, text |-> text]

\* reqs: the contexts a /chat request runs in; direct: the contexts in which
\* wrapped tools are called without a request around them
Profile(reqs, alphabet, maxChunks, maxTools) ==
    [reqs |-> reqs, alphabet |-> alphabet, maxChunks |-> maxChunks,
     maxTools |-> maxTools, payloads |-> Payloads,
     outcomes |-> {Returns, Raises(<<"n", "o">>)}, direct |-> {}]

\* one request at a time
LoneProfiles ==
    { Profile({1}, StreamChunks(k, {"s1"}, {A, B}), MaxChunks, 0) :
          k \in {"reasoning", "text"} }
    \cup { Profile({1}, StreamChunks(k, StreamIds, {A}), MaxChunks, 0) :
          k \in {"reasoning", "text"} }
    \cup { Profile({1}, StreamChunks("reasoning", {"s1"}, {A})
                        \cup StreamChunks("text", {"s1"}, {A}), MaxChunks, 0),
           Profile({1}, StreamChunks("text", {"s1"}, {A}) \cup JunkChunks, MaxChunks, 0),
           Profile({1}, {SSE(EventLine(Ev("text-start", "s1"))), TextBurst("s2", B)},
                   MaxToolChunks, MaxToolCalls) }

\* requests side by side: each carries a user message and its tools succeed
ConcProfiles ==
    { [Profile(Requests, {TextBurst("s1", A)}, MaxConcChunks, MaxToolCalls)
          EXCEPT !.payloads = {UserPayload}, !.outcomes = {Returns}] }

\* a tool that wraps its calls, in requests and outside of them
ToolProfiles ==
    { [Profile({1}, {TextBurst("s1", A)}, MaxToolChunks, MaxToolCalls)
          EXCEPT !.outcomes = {Returns, Raises(<<"n", "o">>), Raises(<<>>)},
                 !.direct = {2}] }

\* ended: how the last call ended, once one has
NoTool == [phase |-> "idle", collector |-> None, start_time |-> 0, calls |-> 0,
           ended |-> None]

ChatInit ==
    /\ pc = [r \in Requests |-> "idle"]
    /\ attribution = [r \in Requests |-> FALSE]
    /\ coll = [r \in Requests |-> None]
    /\ ctx = [r \in Requests |-> None]
    /\ serial = [r \in Requests |-> 0]
    /\ clk = [r \in Requests |-> 0]
    /\ upstream = [r \in Requests |-> <<>>]
    /\ upstate = [r \in Requests |-> "open"]
    /\ arrival = [r \in Requests |-> <<>>]
    /\ out = [r \in Requests |-> <<>>]
    /\ reasoning_buffers = [r \in Requests |-> EmptyBuffers]
    /\ text_buffers = [r \in Requests |-> EmptyBuffers]
    /\ first_text_logged = [r \in Requests |-> FALSE]
    /\ tool = [r \in Requests |-> NoTool]

\* the generator's view of request r at time t
Gen(r, t) ==
    [c |-> coll[r], o |-> out[r], rb |-> reasoning_buffers[r],
     tb |-> text_buffers[r], ftl |-> first_text_logged[r], n |-> serial[r],
     t |-> t, r |-> r, raised |-> FALSE]

\* write the generator's view back
SetGen(r, g) ==
    /\ coll' = [coll EXCEPT ![r] = g.c]
    /\ out' = [out EXCEPT ![r] = g.o]
    /\ reasoning_buffers' = [reasoning_buffers EXCEPT ![r] = g.rb]
    /\ text_buffers' = [text_buffers EXCEPT ![r] = g.tb]
    /\ first_text_logged' = [first_text_logged EXCEPT ![r] = g.ftl]
    /\ serial' = [serial EXCEPT ![r] = g.n]

\* main.py lines 226-259: the handler up to the await of dispatch_request
ChatStart(r) ==
    /\ r \in env.reqs
    /\ pc[r] = "idle"
    /\ \E messages \in env.payloads :
         LET user_message == extract_user_message(messages).value.v
             fresh == add_input_entry(BrainLogCollector(clk[r]), <<r, serial[r] + 1>>,
                                          clk[r], user_message)
         IN  /\ coll' = [coll EXCEPT ![r] = fresh]
             /\ serial' = [serial EXCEPT ![r] = @ + 1]
             /\ ctx' = set_brain_log_collector(ctx, r, Some(r))
    /\ attribution' = [attribution EXCEPT ![r] = TRUE]
    /\ pc' = [pc EXCEPT ![r] = "dispatch"]
    /\ UNCHANGED <<env, clk, upstream, upstate, arrival, out, reasoning_buffers, text_buffers,
                   first_text_logged, tool, collVars, tapVars, pureVars, lspVars>>

\* main.py lines 262-268 and 369-373: dispatch_request returned
ChatDispatch(r) ==
    /\ pc[r] = "dispatch"
    /\ \E has_body_iterator \in BOOLEAN :
         pc' = [pc EXCEPT ![r] = IF has_body_iterator THEN "start" ELSE "plain"]
    /\ UNCHANGED <<env, attribution, coll, ctx, serial, clk, upstream, upstate, arrival, out,
                   reasoning_buffers, text_buffers, first_text_logged, tool, collVars, tapVars, pureVars, lspVars>>

\* main.py lines 271-279: the generator runs up to its first await
GenStart(r) ==
    /\ pc[r] = "start"
    /\ LET g == EmitPending(Gen(r, clk[r]))
       IN  SetGen(r, [g EXCEPT !.rb = EmptyBuffers, !.tb = EmptyBuffers, !.ftl = FALSE])
    /\ pc' = [pc EXCEPT ![r] = "await"]
    /\ UNCHANGED <<env, attribution, ctx, clk, upstream, upstate, arrival, tool, collVars, tapVars, pureVars, lspVars>>

\* main.py lines 282-334: body_iterator yields a chunk; the generator
\* forwards it and handles its lines
GenChunk(r) ==
    /\ pc[r] = "await"
    /\ upstate[r] = "open"
    /\ Len(upstream[r]) < env.maxChunks
    /\ \E chunk \in env.alphabet :
         LET g == HandleChunk(Gen(r, clk[r] + 1), chunk)
         IN  /\ upstream' = [upstream EXCEPT ![r] = Append(@, chunk)]
             /\ arrival' = [arrival EXCEPT ![r] = Append(@, clk[r] + 1)]
             /\ SetGen(r, g)
             /\ pc' = [pc EXCEPT ![r] = IF g.raised THEN "failed" ELSE "drain"]
    /\ clk' = [clk EXCEPT ![r] = @ + 1]
    /\ UNCHANGED <<env, attribution, ctx, upstate, tool, collVars, tapVars, pureVars, lspVars>>

\* main.py lines 336-338: the drain that ends the loop body
GenDrain(r) ==
    /\ pc[r] = "drain"
    /\ SetGen(r, EmitPending(Gen(r, clk[r])))
    /\ pc' = [pc EXCEPT ![r] = "await"]
    /\ UNCHANGED <<env, attribution, ctx, clk, upstream, upstate, arrival, tool, collVars, tapVars, pureVars, lspVars>>

\* main.py lines 340-367: body_iterator is exhausted
GenEnd(r) ==
    /\ pc[r] = "await"
    /\ upstate[r] = "open"
    /\ tool[r].phase = "idle"
    /\ SetGen(r, FinishStream(Gen(r, clk[r] + 1)))
    /\ clk' = [clk EXCEPT ![r] = @ + 1]
    /\ upstate' = [upstate EXCEPT ![r] = "exhausted"]
    /\ attribution' = [attribution EXCEPT ![r] = FALSE]
    /\ pc' = [pc EXCEPT ![r] = "done"]
    /\ UNCHANGED <<env, ctx, upstream, arrival, tool, collVars, tapVars, pureVars, lspVars>>

\* main.py line 282: body_iterator raises, or the client goes away
GenUpstreamError(r) ==
    /\ pc[r] = "await"
    /\ upstate[r] = "open"
    /\ upstate' = [upstate EXCEPT ![r] = "error"]
    /\ pc' = [pc EXCEPT ![r] = "failed"]
    /\ UNCHANGED <<env, attribution, coll, ctx, serial, clk, upstream, arrival, out, reasoning_buffers,
                   text_buffers, first_text_logged, tool, collVars, tapVars, pureVars, lspVars>>

\* agent.py lines 42-54
get_result_preview(result, max_len) ==
    IF Len(result) > max_len THEN SubSeq(result, 1, max_len) \o Ellipsis ELSE result

\* agent.py lines 65-72 (and 101-108): a wrapped tool is called in request r
ToolStart(r) ==
    /\ \/ pc[r] \in {"await", "drain"}
       \/ r \in env.direct
    /\ upstate[r] = "open"
    /\ tool[r].phase = "idle"
    /\ tool[r].calls < env.maxTools
    /\ LET active == get_brain_log_collector(ctx, r)
       IN  /\ tool' = [tool EXCEPT ![r] = [phase |-> "running", collector |-> active,
                                            start_time |-> clk[r], calls |-> @.calls + 1,
                                            ended |-> @.ended]]
           /\ IF active # None
                 THEN /\ coll' = [coll EXCEPT ![active[1]] =
                                     add_tool_call_pending(@, <<r, serial[r] + 1>>, clk[r],
                                                           "get_skills", EmptyDict)]
                      /\ serial' = [serial EXCEPT ![r] = @ + 1]
                 ELSE UNCHANGED <<coll, serial>>
    /\ UNCHANGED <<env, attribution, pc, ctx, clk, upstream, upstate, arrival, out, reasoning_buffers,
                   text_buffers, first_text_logged, collVars, tapVars, pureVars, lspVars>>

\* agent.py lines 74-98 (and 110-134): the tool body returns or raises
ToolEnd(r) ==
    /\ \/ pc[r] \in {"await", "drain"}
       \/ r \in env.direct
    /\ upstate[r] = "open"
    /\ tool[r].phase = "running"
    /\ \E body \in env.outcomes :
         LET active == tool[r].collector
             duration_ms == (clk[r] - tool[r].start_time) * 1000
         IN  /\ tool' = [tool EXCEPT ![r].phase = "idle", ![r].collector = None,
                                      ![r].ended = Some(body)]
             /\ IF active # None
                 THEN /\ coll' = [coll EXCEPT ![active[1]] =
                             IF body.ok
                                 THEN add_tool_result_entry(@, <<r, serial[r] + 1>>, clk[r],
                                          "get_skills",
                                          Some(get_result_preview(<<"o", "k">>, TextPreviewLen)),
                                          "success", None, Some(duration_ms))
                                 ELSE add_tool_result_entry(@, <<r, serial[r] + 1>>, clk[r],
                                          "get_skills", None, "failure",
                                          Some(body.text), Some(duration_ms))]
                      /\ serial' = [serial EXCEPT ![r] = @ + 1]
                 ELSE UNCHANGED <<coll, serial>>
    /\ UNCHANGED <<env, attribution, pc, ctx, clk, upstream, upstate, arrival, out, reasoning_buffers,
                   text_buffers, first_text_logged, collVars, tapVars, pureVars, lspVars>>

\* ======================================================================
\* The stream tap (brain_log_stream.py)
\* ======================================================================
\* time.time() is never 0: the tap's clock starts at TapEpoch
TapEpoch == 1

ToolCallIds == {"t1", "t2"}

\* BrainLogChunk.from_entry
BrainLogChunk_from_entry(entry) == [type |-> "data-brain-log", data |-> to_stream_dict(entry)]

\* items the hooks yield: a chunk of the parent, or a BrainLogChunk
ParentItem(chunk) == [src |-> "parent", chunk |-> chunk]
BrainLogItem(entry) == [src |-> "brainlog", chunk |-> BrainLogChunk_from_entry(entry)]

\* what VercelAIEventStream's hook yields (the library's chunks, by name)
ParentChunks(hook, arg) ==
    CASE hook = "before_stream" -> <<"start">>
      [] hook = "before_response" -> <<"start-step">>
      [] hook = "handle_text_start" -> IF arg THEN <<>> ELSE <<"text-start">>
      [] hook = "handle_tool_call_start" -> <<"tool-input-start">>
      [] hook = "handle_tool_call_end" -> <<"tool-input-available">>
      [] hook = "handle_function_tool_result" -> <<"tool-output-available">>
      [] hook = "after_stream" -> <<"finish", "[DONE]">>

\* BrainLogEventStream(): the dataclass defaults
BrainLogEventStream ==
    [_collector |-> None, _first_text_emitted |-> FALSE,
     _tool_start_times |-> [x \in {} |-> 0]]

\* A hook works on t: s the stream object, c the collector object, o the
\* chunks yielded so far, p the parent's chunks so far, n entries created.

\* async for chunk in super().hook(...): yield chunk
Super(t, chunks) ==
    [t EXCEPT !.o = @ \o [i \in 1..Len(chunks) |-> ParentItem(chunks[i])],
              !.p = @ \o chunks]

\* for chunk in self._emit_pending_brain_logs(): yield chunk
emit_pending_brain_logs(t) ==
    IF t.s._collector = None
        THEN t
        ELSE LET drained == Deref(t.c, get_pending_entries_result(t.c))
             IN  [t EXCEPT !.o = @ \o [i \in 1..Len(drained) |-> BrainLogItem(drained[i])],
                           !.c = get_pending_entries(@)]

\* brain_log_stream.py lines 67-75
before_stream(t, chunks) == emit_pending_brain_logs(Super(t, chunks))

\* brain_log_stream.py lines 77-85
before_response_parent_first(t, chunks) == emit_pending_brain_logs(Super(t, chunks))

before_response(t, chunks) == Super(emit_pending_brain_logs(t), chunks)

handle_text_start_no_guard(t, time, chunks) ==
    LET t1 == IF ~t.s._first_text_emitted
                  THEN [t EXCEPT !.c = record_first_token(@, time),
                                 !.s._first_text_emitted = TRUE]
                  ELSE t
    IN  Super(emit_pending_brain_logs(t1), chunks)

\* brain_log_stream.py lines 87-99
handle_text_start(t, time, chunks) ==
    LET t1 == IF ~t.s._first_text_emitted /\ t.s._collector # None
                  THEN [t EXCEPT !.c = record_first_token(@, time),
                                 !.s._first_text_emitted = TRUE]
                  ELSE t
    IN  Super(emit_pending_brain_logs(t1), chunks)

\* brain_log_stream.py lines 101-121
handle_tool_call_start_keep_first(t, time, part, chunks) ==
    LET t1 == [t EXCEPT !.s._tool_start_times =
                  [x \in (DOMAIN @) \cup {part.tool_call_id} |->
                      IF x \in DOMAIN @ THEN @[x] ELSE time]]
        t2 == IF t1.s._collector # None
                  THEN [t1 EXCEPT !.c = add_routing_entry(@, <<0, t1.n + 1>>, time,
                                            Some(part.tool_name),
                                            <<"LLM selected this tool based on user query">>),
                                  !.n = @ + 1]
                  ELSE t1
    IN  Super(emit_pending_brain_logs(t2), chunks)

handle_tool_call_start(t, time, part, chunks) ==
    LET t1 == [t EXCEPT !.s._tool_start_times =
                  [x \in (DOMAIN @) \cup {part.tool_call_id} |->
                      IF x = part.tool_call_id THEN time ELSE @[x]]]
        t2 == IF t1.s._collector # None
                  THEN [t1 EXCEPT !.c = add_routing_entry(@, <<0, t1.n + 1>>, time,
                                            Some(part.tool_name),
                                            <<"LLM selected this tool based on user query">>),
                                  !.n = @ + 1]
                  ELSE t1
    IN  Super(emit_pending_brain_logs(t2), chunks)

\* brain_log_stream.py lines 123-131
handle_tool_call_end_drain_first(t, chunks) == Super(emit_pending_brain_logs(t), chunks)

handle_tool_call_end(t, chunks) == emit_pending_brain_logs(Super(t, chunks))

\* brain_log_stream.py lines 133-175; result is event.result, with the
\* attributes it has: tool_call_id, and optionally content and tool_name
handle_function_tool_result_pop_zero(t, time, result, chunks) ==
    LET tool_call_id == result.tool_call_id
        times == t.s._tool_start_times
        start_time == IF tool_call_id \in DOMAIN times THEN times[tool_call_id] ELSE 0
        t1 == [t EXCEPT !.s._tool_start_times =
                            [x \in (DOMAIN @) \ {tool_call_id} |-> @[x]]]
        has_content == result.content # None
        t2 == IF t1.s._collector # None
                  THEN [t1 EXCEPT !.c = add_tool_call_complete(@, <<0, t1.n + 1>>, time,
                                            IF result.tool_name # None
                                                THEN result.tool_name[1] ELSE "unknown",
                                            EmptyDict,
                                            IF has_content
                                                THEN Some(Preview(result.content[1],
                                                                  TextPreviewLen))
                                                ELSE None,
                                            IF has_content THEN "success" ELSE "failure",
                                            IF has_content
                                                THEN None
                                                ELSE Some(<<"Tool execution failed">>),
                                            Some((time - start_time) * 1000)),
                                  !.n = @ + 1]
                  ELSE t1
    IN  Super(emit_pending_brain_logs(t2), chunks)

handle_function_tool_result(t, time, result, chunks) ==
    LET tool_call_id == result.tool_call_id
        times == t.s._tool_start_times
        start_time == IF tool_call_id \in DOMAIN times THEN Some(times[tool_call_id])
                                                       ELSE None
        t1 == [t EXCEPT !.s._tool_start_times =
                            [x \in (DOMAIN @) \ {tool_call_id} |-> @[x]]]
        duration_ms == IF start_time # None /\ start_time[1] # 0
                           THEN Some((time - start_time[1]) * 1000) ELSE None
        has_content == result.content # None
        result_preview == IF has_content
                              THEN Some(Preview(result.content[1], TextPreviewLen))
                              ELSE None
        status == IF has_content THEN "success" ELSE "failure"
        error == IF has_content THEN None ELSE Some(<<"Tool execution failed">>)
        tool_name == IF result.tool_name # None THEN result.tool_name[1] ELSE "unknown"
        t2 == IF t1.s._collector # None
                  THEN [t1 EXCEPT !.c = add_tool_call_complete(@, <<0, t1.n + 1>>, time,
                                            tool_name, EmptyDict, result_preview, status,
                                            error, duration_ms),
                                  !.n = @ + 1]
                  ELSE t1
    IN  Super(emit_pending_brain_logs(t2), chunks)

\* brain_log_stream.py lines 177-192
after_stream(t, time, chunks) ==
    LET t1 == IF t.s._collector # None
                  THEN [t EXCEPT !.c = add_performance_entry(@, <<0, t.n + 1>>, time,
                                           get_ttft_ms(t.c), Some(get_total_ms(t.c, time))),
                                 !.n = @ + 1]
                  ELSE t
    IN  Super(emit_pending_brain_logs(t1), chunks)

\* ------------------------------------------------- the runtime drives the tap
TapInit ==
    /\ stream = BrainLogEventStream
    /\ emitted = <<>>
    /\ parentOut = <<>>
    /\ phase = "new"
    /\ nHooks = 0
    /\ lastHook = None

\* what the hooks leave alone
tapFrame == <<nUpdates, updId, lastDrain, addedSince, expectDrain, addedAll, drainedAll,
              lastUpdate, updBeforeDrain, firstCall, nFirstCalls, chatVars, pureVars, lspVars>>

Tap == [s |-> stream, c |-> collector, o |-> emitted, p |-> parentOut, n |-> nextSerial]

\* the hook `hook` has run to its end, leaving t
SetTap(t, hook, arg) ==
    /\ stream' = t.s
    /\ collector' = t.c
    /\ emitted' = t.o
    /\ parentOut' = t.p
    /\ nextSerial' = t.n
    /\ lastHook' = Some([hook |-> hook, arg |-> arg, before |-> Len(emitted),
                         had |-> collector])
    /\ UNCHANGED <<now, tapFrame>>

MidStream ==
    /\ phase = "streaming"
    /\ nHooks < MaxHooks
    /\ nHooks' = nHooks + 1
    /\ UNCHANGED phase

\* stream.set_collector(collector)
TapSetCollector ==
    /\ phase = "new"
    /\ stream._collector = None
    /\ stream' = [stream EXCEPT !._collector = Some(0)]
    /\ UNCHANGED <<collector, now, nextSerial, emitted, parentOut, phase, nHooks,
                   lastHook, tapFrame>>

\* collector.add_input_entry(message), before the stream starts
TapAddInput ==
    /\ phase = "new"
    /\ nextSerial = 0
    /\ \E m \in Messages :
         collector' = add_input_entry(collector, <<0, 1>>, now, m)
    /\ nextSerial' = 1
    /\ UNCHANGED <<now, tapVars, tapFrame>>

TapBeforeStream ==
    /\ phase = "new"
    /\ SetTap(before_stream(Tap, ParentChunks("before_stream", FALSE)),
              "before_stream", FALSE)
    /\ phase' = "streaming"
    /\ UNCHANGED nHooks

TapBeforeResponse ==
    /\ MidStream
    /\ SetTap(before_response(Tap, ParentChunks("before_response", FALSE)),
              "before_response", FALSE)

TapHandleTextStart ==
    /\ MidStream
    /\ \E follows_text \in BOOLEAN :
         SetTap(handle_text_start(Tap, now, ParentChunks("handle_text_start", follows_text)),
                "handle_text_start", follows_text)

TapHandleToolCallStart ==
    /\ MidStream
    /\ \E id \in ToolCallIds :
         SetTap(handle_tool_call_start(Tap, now,
                    [tool_call_id |-> id, tool_name |-> "get_skills"],
                    ParentChunks("handle_tool_call_start", FALSE)),
                "handle_tool_call_start", id)

TapHandleToolCallEnd ==
    /\ MidStream
    /\ SetTap(handle_tool_call_end(Tap, ParentChunks("handle_tool_call_end", FALSE)),
              "handle_tool_call_end", FALSE)

\* str(event.result.content) of a tool that returned a long text
LongContent == [i \in 1..(TextPreviewLen + 1) |-> IF i % 2 = 1 THEN "o" ELSE "k"]

\* event.result: a tool return (content), or a result that carries none
ToolResults ==
    { [tool_call_id |-> id, content |-> Some(<<"o", "k">>), tool_name |-> Some("get_skills")] :
          id \in ToolCallIds }
    \cup { [tool_call_id |-> "t1", content |-> None, tool_name |-> nm] :
          nm \in {None, Some("get_skills")} }
    \cup { [tool_call_id |-> "t2", content |-> Some(text), tool_name |-> None] :
          text \in {<<>>, LongContent} }

TapHandleFunctionToolResult ==
    /\ MidStream
    /\ \E result \in ToolResults :
         SetTap(handle_function_tool_result(Tap, now, result,
                    ParentChunks("handle_function_tool_result", FALSE)),
                "handle_function_tool_result", result)

TapAfterStream ==
    /\ phase = "streaming"
    /\ SetTap(after_stream(Tap, now, ParentChunks("after_stream", FALSE)),
              "after_stream", FALSE)
    /\ phase' = "finished"
    /\ UNCHANGED nHooks

\* agent.py lines 64-98: once the tool call is complete (handle_tool_call_end)
\* the wrapped tool runs and returns, logging to the collector the stream was
\* given, before the runtime calls the next hook
TapLoggedTool ==
    /\ phase = "streaming"
    /\ stream._collector # None
    /\ lastHook[1].hook = "handle_tool_call_end"
    /\ collector._pending = <<>>
    /\ LET c1 == add_tool_call_pending(collector, <<0, nextSerial + 1>>, now,
                                        "get_skills", EmptyDict)
       IN  collector' = add_tool_result_entry(c1, <<0, nextSerial + 2>>, now, "get_skills",
                            Some(get_result_preview(<<"o", "k">>, TextPreviewLen)),
                            "success", None, Some(0))
    /\ nextSerial' = nextSerial + 2
    /\ UNCHANGED <<now, tapVars, tapFrame>>

TapTick ==
    /\ now < TapEpoch + MaxTapTime
    /\ now' = now + 1
    /\ UNCHANGED <<collector, nextSerial, tapVars, tapFrame>>

\* ------------------------------------------------------- specifications
\* the endpoint
Init ==
    /\ CollectorInit
    /\ ChatInit
    /\ TapInit
    /\ LspInit
    /\ PureIdle
    /\ env \in LoneProfiles \cup ConcProfiles

Next ==
    \E r \in Requests :
        \/ ChatStart(r)
        \/ ChatDispatch(r)
        \/ GenStart(r)
        \/ GenChunk(r)
        \/ GenDrain(r)
        \/ GenEnd(r)
        \/ GenUpstreamError(r)
        \/ ToolStart(r)
        \/ ToolEnd(r)

Spec == Init /\ [][Next]_vars

\* nobody is at the endpoint: one collector is driven directly
IdleEnv == Profile({}, {}, 0, 0)

InitCollector ==
    /\ CollectorInit
    /\ ChatInit
    /\ TapInit
    /\ LspInit
    /\ PureIdle
    /\ env = IdleEnv

NextAddDrain ==
    /\ \/ CollAddInput
       \/ CollAddThinking
       \/ CollAddToolCallPending
       \/ CollGetPending
       \/ CollTick
    /\ UNCHANGED <<chatVars, tapVars, pureVars, lspVars>>

SpecAddDrain == InitCollector /\ [][NextAddDrain]_vars

\* entries are added, updated in place and drained (update_tool_call reads
\* no clock)
NextUpdate ==
    /\ \/ CollAddInput
       \/ CollAddToolCallPending
       \/ CollGetPending
       \/ CollUpdateToolCall
    /\ UNCHANGED <<chatVars, tapVars, pureVars, lspVars>>

SpecUpdate == InitCollector /\ [][NextUpdate]_vars

\* the first-token clock among adds and drains
NextFirstToken ==
    /\ \/ CollAddInput
       \/ CollGetPending
       \/ CollRecordFirstToken
       \/ CollTick
    /\ UNCHANGED <<chatVars, tapVars, pureVars, lspVars>>

SpecFirstToken == InitCollector /\ [][NextFirstToken]_vars

\* the stream tap over a fresh collector
InitTap ==
    /\ CollectorInitAt(TapEpoch)
    /\ ChatInit
    /\ TapInit
    /\ LspInit
    /\ PureIdle
    /\ env = IdleEnv

NextTap ==
    \/ TapSetCollector
    \/ TapAddInput
    \/ TapBeforeStream
    \/ TapBeforeResponse
    \/ TapHandleTextStart
    \/ TapHandleToolCallStart
    \/ TapHandleToolCallEnd
    \/ TapHandleFunctionToolResult
    \/ TapAfterStream
    \/ TapLoggedTool
    \/ TapTick

SpecTap == InitTap /\ [][NextTap]_vars

\* ----------------------------------------- the user message of a request
TextPart(text) == JDict(DictSet(Dict1("type", "text"), "text", text))

\* what the "messages" list of a body may hold
MessageItems ==
    { Msg("user", Str(<<"h", "i">>)),
      Msg("user", JList(<<TextPart(Str(<<"y", "o">>)), TextPart(Str(<<"n", "o">>))>>)),
      Msg("user", JList(<<JDict(Dict1("type", "image")),
                          JDict(Dict1("text", Str(<<"o", "k">>)))>>)),
      Msg("user", JList(<<>>)),
      Msg("user", Other(<<"N", "o", "n", "e">>)),
      JDict(Dict1("role", "user")),
      Msg("assistant", Str(<<"y", "o">>)),
      Str(<<"h", "i">>) }

MessageLists ==
    { JList(ms) : ms \in UNION { [1..n -> MessageItems] : n \in 0..MaxMessages } }

\* request bodies: not JSON, a JSON list, an object without "messages", and
\* objects whose "messages" is null or a list
Bodies ==
    { [t |-> "invalid"], JList(<<>>), JDict(EmptyDict),
      JDict(Dict1("messages", Other(<<"N", "o", "n", "e">>))) }
    \cup { JDict(Dict1("messages", ms)) : ms \in MessageLists }

InitExtract ==
    /\ CollectorInit
    /\ ChatInit
    /\ TapInit
    /\ LspInit
    /\ env = IdleEnv
    /\ given \in { Some(b) : b \in Bodies }
    /\ gave = None

\* main.py lines 226-236 run on the body
ChatUserMessage ==
    /\ gave = None
    /\ gave' = Some(chat_user_message(given[1]))
    /\ UNCHANGED <<given, collVars, chatVars, tapVars, lspVars>>

NextExtract == ChatUserMessage

SpecExtract == InitExtract /\ [][NextExtract]_vars

\* ======================================================================
\* Properties
\* ======================================================================
Ids(entries) == [i \in DOMAIN entries |-> entries[i].id]

\* C1: with only add and get_pending_entries called on one collector, each
\* drain returns exactly the entries added since the previous drain, in
\* insertion order (so a drain right after a drain returns the empty list),
\* and all drains together with what the next drain would return are the
\* added entries, each once and in the order added.
C1_DrainExact ==
    /\ Ids(lastDrain) = expectDrain
    /\ get_pending_entries_result(collector) = addedSince
    /\ drainedAll \o addedSince = addedAll

\* a drain returned two entries after an earlier drain had returned one
C1_Witness ==
    /\ Len(expectDrain) >= 2
    /\ Len(drainedAll) > Len(expectDrain)
    /\ Len(lastDrain) = Len(expectDrain)

\* C3: after update_tool_call(X, SUCCESS, ...) on a PENDING tool call X, the
\* next drain holds an entry with id X exactly once, with status SUCCESS and
\* the new fields merged into details, whether or not a drain came between
\* add_tool_call_pending and update_tool_call.
C3_UpdateThenDrainOnce ==
    updBeforeDrain # None =>
        LET u == updBeforeDrain[1]
            hits == {i \in DOMAIN lastDrain : lastDrain[i].id = u.id}
        IN  /\ Cardinality(hits) = 1
            /\ \A i \in hits :
                 /\ lastDrain[i].status = "success"
                 /\ lastDrain[i].details =
                        DictSet(u.before.details, "result_preview",
                                u.args.result_preview[1])

\* C4: first_token_time keeps the time of the first record_first_token call
\* and get_ttft_ms is computed from it, whatever else is called on the
\* collector; before any call both are None.
C4_FirstTokenKept ==
    IF nFirstCalls = 0
        THEN /\ collector.first_token_time = None
             /\ get_ttft_ms(collector) = None
        ELSE /\ collector.first_token_time = firstCall
             /\ get_ttft_ms(collector) = Some((firstCall[1] - collector._start_time) * 1000)

\* record_first_token was called again at a later time than the first call
C4_Witness ==
    /\ nFirstCalls = 2
    /\ firstCall # None
    /\ now > firstCall[1]

\* ------------------------------------------------ what the upstream sent
\* the events of one chunk that reach HandleEvent (none after a line that
\* makes the loop raise), each with the time the chunk was received
RECURSIVE ChunkEvents(_, _, _)
ChunkEvents(lines, i, at) ==
    IF i > Len(lines) \/ lines[i].k = "scalar"
        THEN <<>>
        ELSE (IF lines[i].k = "object" THEN <<[ev |-> lines[i].event, at |-> at]>>
                                       ELSE <<>>)
             \o ChunkEvents(lines, i + 1, at)

RECURSIVE EventsFrom(_, _, _)
EventsFrom(chunks, times, i) ==
    IF i > Len(chunks)
        THEN <<>>
        ELSE ChunkEvents(chunks[i], 1, times[i]) \o EventsFrom(chunks, times, i + 1)

\* the events request r has handled, in order
Hist(r) == EventsFrom(upstream[r], arrival[r], 1)

TypeOf(e) == DictGet(e.ev, "type", "")
IdOf(e) == DictGet(e.ev, "id", "")
Is(e, type, id) == TypeOf(e) = type /\ IdOf(e) = id

SetMax(S) == CHOOSE x \in S : \A y \in S : y <= x
SetMin(S) == CHOOSE x \in S : \A y \in S : x <= y

Kinds == {"reasoning", "text"}
EntryType(kind) == IF kind = "reasoning" THEN "thinking" ELSE "text"

Starts(h, kind, id, j) == {k \in 1..(j - 1) : Is(h[k], kind \o "-start", id)}
Ends(h, kind, id, j) == {k \in 1..(j - 1) : Is(h[k], kind \o "-end", id)}

\* just before event j, a start of (kind, id) has been seen with no end after it
OpenAt(h, kind, id, j) ==
    /\ Starts(h, kind, id, j) # {}
    /\ \A k \in Ends(h, kind, id, j) : k < SetMax(Starts(h, kind, id, j))

RECURSIVE Deltas(_, _, _, _, _)
Deltas(h, kind, id, from, to) ==
    IF from > to
        THEN <<>>
        ELSE (IF Is(h[from], kind \o "-delta", id)
                  THEN DictGet(h[from].ev, "delta", <<>>) ELSE <<>>)
             \o Deltas(h, kind, id, from + 1, to)

\* the deltas of (kind, id) since its latest start, joined in order
AccAt(h, kind, id, j) ==
    Deltas(h, kind, id, SetMax(Starts(h, kind, id, j)) + 1, j - 1)

Shown(type, text, at) == <<type, Preview(text, TextPreviewLen), Len(text), at>>

\* the entries the end events of h call for, in order
RECURSIVE Expected(_, _)
Expected(h, j) ==
    IF j > Len(h)
        THEN <<>>
        ELSE LET here == { kind \in Kinds :
                             /\ TypeOf(h[j]) = kind \o "-end"
                             /\ OpenAt(h, kind, IdOf(h[j]), j)
                             /\ AccAt(h, kind, IdOf(h[j]), j) # <<>> }
             IN  (IF here = {}
                      THEN <<>>
                      ELSE LET kind == CHOOSE k \in here : TRUE
                           IN  <<Shown(EntryType(kind), AccAt(h, kind, IdOf(h[j]), j),
                                       h[j].at)>>)
                 \o Expected(h, j + 1)

\* the thinking and text entries created in request r, in creation order
RECURSIVE StreamEntries(_, _, _)
StreamEntries(c, r, i) ==
    IF i = 0
        THEN <<>>
        ELSE StreamEntries(c, r, i - 1)
             \o (IF /\ <<r, i>> \in DOMAIN c._entry_id_map
                    /\ c._entry_id_map[<<r, i>>].type \in {"thinking", "text"}
                 THEN LET e == c._entry_id_map[<<r, i>>]
                      IN  <<<<e.type, e.details["preview"], e.details["length"],
                              e.timestamp>>>>
                 ELSE <<>>)

Got(r) == StreamEntries(coll[r], r, serial[r])

Started(r) == pc[r] # "idle"

PrimaryOf(o) ==
    LET p == SelectSeq(o, LAMBDA x : x.src = "upstream")
    IN  [i \in DOMAIN p |-> p[i].chunk]

FramesOf(o) ==
    LET f == SelectSeq(o, LAMBDA x : x.src = "brainlog")
    IN  [i \in DOMAIN f |-> f[i].chunk.data]

\* C2: the primary chunks of the response are the upstream's chunks, each
\* once, unchanged, in order, for every upstream; the generator gives up
\* forwarding only when the upstream itself has failed.
C2_PassThrough ==
    \A r \in Requests :
        /\ PrimaryOf(out[r]) = upstream[r]
        /\ pc[r] = "failed" => upstate[r] = "error"

\* C5: the first token time is the time of the first text-start or
\* text-delta event handled, whichever comes first, and no reasoning event
\* records it.
C5_FirstTokenAtText ==
    \A r \in Requests :
        Started(r) =>
            LET h == Hist(r)
                txt == {j \in DOMAIN h : TypeOf(h[j]) \in {"text-start", "text-delta"}}
            IN  coll[r].first_token_time =
                    IF txt = {} THEN None ELSE Some(h[SetMin(txt)].at)

\* reasoning-start, reasoning-delta, reasoning-end, text-start: the time
\* recorded is that of the text-start
C5_Witness ==
    \E r \in Requests :
        LET h == Hist(r)
        IN  /\ Len(h) = 4
            /\ [j \in 1..4 |-> TypeOf(h[j])] =
                   <<"reasoning-start", "reasoning-delta", "reasoning-end", "text-start">>
            /\ h[4].at > h[1].at
            /\ coll[r].first_token_time = Some(h[4].at)

\* C6: an end event of an open reasoning or text stream adds exactly one
\* entry of the matching type holding that id's deltas since its start,
\* joined in order, unless they are empty; nothing else adds such an entry
\* before the stream ends; the open buffers are those of the ids started and
\* not ended, each holding its own id's deltas.
C6_StreamEntries ==
    \A r \in Requests :
        Started(r) =>
            LET h == Hist(r)
                exp == Expected(h, 1)
                got == Got(r)
                buf == [kind \in Kinds |-> IF kind = "reasoning"
                                               THEN reasoning_buffers[r]
                                               ELSE text_buffers[r]]
            IN  /\ Len(got) >= Len(exp)
                /\ SubSeq(got, 1, Len(exp)) = exp
                /\ pc[r] # "done" => got = exp
                /\ \A kind \in Kinds :
                     /\ DOMAIN buf[kind].val =
                            {id \in StreamIds : OpenAt(h, kind, id, Len(h) + 1)}
                     /\ \A id \in DOMAIN buf[kind].val :
                            buf[kind].val[id] = AccAt(h, kind, id, Len(h) + 1)

\* a reasoning stream with deltas "a" then "b" has ended: one THINKING entry "ab"
C6_Witness ==
    \E r \in Requests :
        /\ Started(r)
        /\ \E i \in DOMAIN Got(r) :
             /\ Got(r)[i][1] = "thinking"
             /\ Got(r)[i][2] = <<"a", "b">>

\* the entries added after the upstream ended, before PERFORMANCE
Flushed(r) == SubSeq(Got(r), Len(Expected(Hist(r), 1)) + 1, Len(Got(r)))

OpenIds(r, kind) == {id \in StreamIds : OpenAt(Hist(r), kind, id, Len(Hist(r)) + 1)}
LeftOver(r, kind) ==
    {id \in OpenIds(r, kind) : AccAt(Hist(r), kind, id, Len(Hist(r)) + 1) # <<>>}

\* C7 as stated: when the upstream ends, every open non-empty text buffer
\* gets a TEXT entry and every open non-empty reasoning buffer a THINKING
\* entry.
C7_FlushAll ==
    \A r \in Requests :
        pc[r] = "done" =>
            \A kind \in Kinds : \A id \in LeftOver(r, kind) :
                \E i \in DOMAIN Flushed(r) :
                    Flushed(r)[i] =
                        Shown(EntryType(kind),
                              AccAt(Hist(r), kind, id, Len(Hist(r)) + 1), clk[r])

\* position in the dict: the first start of id after its last end
KeySince(h, id) ==
    LET e == Ends(h, "text", id, Len(h) + 1)
        last == IF e = {} THEN 0 ELSE SetMax(e)
    IN  SetMin({k \in Starts(h, "text", id, Len(h) + 1) : k > last})

\* C7 amended: when the upstream is exhausted, exactly the open non-empty
\* text buffers are flushed, one TEXT entry each in the order the buffers
\* were opened, and their frames and then the PERFORMANCE frame end the
\* response; open reasoning buffers get no entry.
C7_FlushText ==
    \A r \in Requests :
        pc[r] = "done" =>
            LET h == Hist(r)
                left == LeftOver(r, "text")
                n == Cardinality(left)
                order == CHOOSE s \in [1..n -> left] :
                            \A a, b \in 1..n : a < b => KeySince(h, s[a]) < KeySince(h, s[b])
                frames == FramesOf(out[r])
                m == Len(frames)
            IN  /\ Flushed(r) =
                       [i \in 1..n |-> Shown("text", AccAt(h, "text", order[i], Len(h) + 1),
                                             clk[r])]
                /\ m >= n + 1
                /\ \A i \in 1..n : frames[m - n - 1 + i].type = "text"
                /\ frames[m].type = "performance"

\* the upstream ended with a text buffer and a reasoning buffer both open
\* and non-empty: the text was flushed
C7_Witness ==
    \E r \in Requests :
        /\ pc[r] = "done"
        /\ LeftOver(r, "text") # {}
        /\ LeftOver(r, "reasoning") # {}
        /\ Flushed(r) # <<>>

\* C8: a request whose upstream is exhausted has exactly one PERFORMANCE
\* entry, the entry added last, after every upstream chunk was forwarded;
\* its frame is the last item of the response, and nothing is left pending.
\* No other request state has a PERFORMANCE entry.
C8_PerformanceLast ==
    \A r \in Requests :
        Started(r) =>
            LET m == coll[r]._entry_id_map
                perf == {id \in DOMAIN m : m[id].type = "performance"}
                frames == FramesOf(out[r])
            IN  IF pc[r] = "done"
                    THEN /\ perf = {<<r, serial[r]>>}
                         /\ PrimaryOf(out[r]) = upstream[r]
                         /\ out[r][Len(out[r])].src = "brainlog"
                         /\ out[r][Len(out[r])].chunk.data.id \in perf
                         /\ Cardinality({i \in DOMAIN frames :
                                            frames[i].type = "performance"}) = 1
                         /\ coll[r].entries = <<>>
                         /\ coll[r]._pending = <<>>
                    ELSE perf = {}

\* a stream of at least two chunks with text in it has ended
C8_Witness ==
    \E r \in Requests :
        /\ pc[r] = "done"
        /\ Len(upstream[r]) >= 2
        /\ coll[r].first_token_time # None

\* C9: the frames of a response, followed by what is still pending, are the
\* entries of the request in the order they were added.
C9_Fifo ==
    \A r \in Requests :
        Started(r) =>
            Ids(FramesOf(out[r])) \o coll[r].entries = [i \in 1..serial[r] |-> <<r, i>>]

\* one drain in mid-stream emitted two entries
C9_Witness ==
    \E r \in Requests : \E i \in DOMAIN out[r] :
        /\ i >= 2
        /\ i < Len(out[r])
        /\ out[r][i].src = "brainlog"
        /\ out[r][i + 1].src = "brainlog"
        /\ pc[r] \in {"await", "drain"}

\* C10: a collector holds, and a response carries, only entries created in
\* its own request, and a request's context refers to its own collector.
C10_Isolation ==
    \A q \in Requests :
        Started(q) =>
            /\ \A id \in DOMAIN coll[q]._entry_id_map : id[1] = q
            /\ \A i \in DOMAIN out[q] :
                 out[q][i].src = "brainlog" => out[q][i].chunk.data.id[1] = q
            /\ ctx[q] = Some(q)

\* two requests are streaming and a logged tool has run in each
C10_Witness ==
    \A q \in Requests :
        /\ pc[q] \in {"await", "drain"}
        /\ \E id \in DOMAIN coll[q]._entry_id_map :
             coll[q]._entry_id_map[id].type = "tool_result"

\* the handler or the generator of request r has finished
Completed(r) == pc[r] \in {"done", "failed", "plain"}

\* C11: once a request has completed, in success or in error, its context no
\* longer refers to a collector: get_brain_log_collector() returns None.
C11_CollectorCleared ==
    \A r \in Requests :
        Completed(r) => get_brain_log_collector(ctx, r) = None

\* C12: update_tool_call with an entry_id that is not in _entry_id_map
\* returns without effect: entries, _pending, every entry object in the
\* index, _start_time and first_token_time are what they were before.
C12_UnknownIdNoOp ==
    [][(/\ nUpdates' # nUpdates
        /\ updId'[1] \notin DOMAIN collector._entry_id_map)
          => collector' = collector]_vars

\* update_tool_call was called with an unknown id while a PENDING tool call
\* was queued
C12_Witness ==
    /\ updId # None
    /\ updId[1] \notin DOMAIN collector._entry_id_map
    /\ \E i \in DOMAIN collector._pending :
         collector._entry_id_map[collector._pending[i]].status = "pending"

\* s is t with elements left out
IsSubSeq(s, t) ==
    \E f \in [DOMAIN s -> DOMAIN t] :
        /\ \A i \in DOMAIN s : t[f[i]] = s[i]
        /\ \A i, j \in DOMAIN s : i < j => f[i] < f[j]

\* C13 as stated: whatever was added, updated and drained, the list
\* `entries` still holds every entry ever added, in insertion order.
C13_EntriesKeepAll == IsSubSeq(addedAll, collector.entries)

\* C13 amended: a drain empties `entries` together with the pending queue;
\* the entries ever added are kept by the id index, and get_all_entries()
\* returns each of them once, in insertion order, whatever was added,
\* updated and drained.
C13_IndexKeepsAll ==
    /\ [](Ids(get_all_entries(collector)) = addedAll)
    /\ [][drainedAll' # drainedAll =>
             /\ collector'.entries = <<>>
             /\ collector'._pending = <<>>]_vars

\* two entries were added, one was updated, and a drain has just emptied
\* `entries`
C13_Witness ==
    /\ Len(addedAll) >= 2
    /\ nUpdates > 0
    /\ drainedAll # <<>>
    /\ collector.entries = <<>>
    /\ Len(get_all_entries(collector)) >= 2

\* the request ran one logged tool, which returned, and the stream carried
\* no reasoning and no text
OneToolRun(r) ==
    /\ pc[r] = "done"
    /\ tool[r].calls = 1
    /\ Got(r) = <<>>
    /\ \A i \in DOMAIN get_all_entries(coll[r]) :
         get_all_entries(coll[r])[i].status # "failure"

\* C14: a request in which the agent called get_skills once and the tool
\* returned has added, in order: INPUT, ROUTING with selected_tool
\* "get_skills", one TOOL_CALL or TOOL_RESULT entry with status SUCCESS and
\* duration_ms >= 0, PERFORMANCE.
C14_SingleToolCall ==
    \A r \in Requests :
        OneToolRun(r) =>
            LET all == get_all_entries(coll[r])
            IN  /\ Len(all) = 4
                /\ all[1].type = "input"
                /\ all[2].type = "routing"
                /\ DictGet(all[2].details, "selected_tool", "") = "get_skills"
                /\ all[3].type \in {"tool_call", "tool_result"}
                /\ all[3].status = "success"
                /\ all[3].duration_ms # None
                /\ all[3].duration_ms[1] >= 0
                /\ all[4].type = "performance"

\* the titles that say the tool failed
HasFailedMarker(title) == title[1] \in {"Tool failed: ", "Tool call failed: "}

\* C15: every entry that records a failed tool result has status FAILURE
\* with an error in its details and a title that says "failed"; here for the
\* entries handle_function_tool_result adds.
C15_FailureShape ==
    \A id \in DOMAIN collector._entry_id_map :
        LET e == collector._entry_id_map[id]
        IN  e.status = "failure" =>
                /\ "error" \in DOMAIN e.details
                /\ HasFailedMarker(e.title)

\* request r is complete, no tool ran, and the upstream carried one text
\* stream and nothing else: text-start, one or more text-delta, and
\* possibly text-end, all of one id
OneTextStream(r) ==
    LET h == Hist(r)
        n == Len(h)
    IN  /\ pc[r] = "done"
        /\ tool[r].calls = 0
        /\ n >= 2
        /\ TypeOf(h[1]) = "text-start"
        /\ TypeOf(h[2]) = "text-delta"
        /\ \A j \in 2..n :
             /\ IdOf(h[j]) = IdOf(h[1])
             /\ \/ TypeOf(h[j]) = "text-delta"
                \/ j = n /\ TypeOf(h[j]) = "text-end"

\* C16: a request without tool calls whose upstream carried one text stream
\* has added exactly INPUT (with the user message and its length), one TEXT
\* entry holding the whole reply, and PERFORMANCE, in this order, and no
\* TOOL_CALL; the INPUT frame is the first item of the response and the
\* PERFORMANCE frame the last.
C16_PlainReply ==
    \A r \in Requests :
        OneTextStream(r) =>
            LET h == Hist(r)
                all == get_all_entries(coll[r])
                reply == Deltas(h, "text", IdOf(h[1]), 1, Len(h))
            IN  /\ [i \in DOMAIN all |-> all[i].type] = <<"input", "text", "performance">>
                /\ \E messages \in env.payloads :
                     /\ all[1].details["message_preview"] =
                            extract_user_message(messages).value.v
                     /\ all[1].details["length"] =
                            Len(extract_user_message(messages).value.v)
                /\ all[2].details["preview"] = reply
                /\ all[2].details["length"] = Len(reply)
                /\ "total_ms" \in DOMAIN all[3].details
                /\ out[r][1] = Frame(all[1])
                /\ out[r][Len(out[r])].src = "brainlog"
                /\ out[r][Len(out[r])].chunk.data.type = "performance"
                /\ \A id \in DOMAIN coll[r]._entry_id_map :
                     coll[r]._entry_id_map[id].type # "tool_call"

\* the user said "hi" and the reply came in two deltas, "a" then "b"
C16_Witness ==
    \E r \in Requests :
        /\ OneTextStream(r)
        /\ get_all_entries(coll[r])[1].details["length"] = 2
        /\ get_all_entries(coll[r])[2].details["preview"] = <<"a", "b">>

ParentItems(chunks) == [i \in DOMAIN chunks |-> ParentItem(chunks[i])]

\* what the hook called last has yielded
LastYield == SubSeq(emitted, lastHook[1].before + 1, Len(emitted))

\* C17: while no collector is set on the stream, each hook yields exactly
\* the chunks of the parent's hook, in the parent's order, and no brain-log
\* chunk; the hooks leave _first_text_emitted False and do not touch the
\* collector object.
C17_NoCollectorNoOp ==
    stream._collector = None =>
        /\ emitted = ParentItems(parentOut)
        /\ stream._first_text_emitted = FALSE
        /\ lastHook # None =>
             /\ LastYield = ParentItems(ParentChunks(lastHook[1].hook, lastHook[1].arg))
             /\ collector = lastHook[1].had

\* without a collector on the stream, and with an entry waiting in a
\* collector nobody attached, the runtime went from before_stream through a
\* text start and a tool result to after_stream
C17_Witness ==
    /\ stream._collector = None
    /\ phase = "finished"
    /\ collector.entries # <<>>
    /\ \E i \in DOMAIN parentOut : parentOut[i] = "text-start"
    /\ \E i \in DOMAIN parentOut : parentOut[i] = "tool-output-available"
    /\ Len(emitted) >= 5

\* the messages of body b that are objects with role "user"
UserMessages(ms) ==
    {i \in DOMAIN ms : ms[i].t = "dict" /\ DictGet(ms[i].d, "role", "") = "user"}

\* C18: whatever the body of the request looks like, the handler gets a
\* user message and nothing is raised: the empty string when the body has
\* no usable "messages" list or the list has no user message, and the
\* content of the last user message when that content is a string.
C18_ExtractFailsSoft ==
    gave # None =>
        LET b == given[1]
            usable == /\ b.t = "dict"
                      /\ "messages" \in DOMAIN b.d
                      /\ b.d["messages"].t = "list"
        IN  /\ ~gave[1].raised
            /\ ~usable => gave[1].value = Str(<<>>)
            /\ usable =>
                 LET ms == b.d["messages"].items
                     users == UserMessages(ms)
                 IN  /\ users = {} => gave[1].value = Str(<<>>)
                     /\ users # {} =>
                          LET content == DictGet(ms[SetMax(users)].d, "content", Str(<<>>))
                          IN  content.t = "str" => gave[1].value = content


\* ---------------------------------------------------------------- C19
KnownEventTypes ==
    {"reasoning-start", "reasoning-delta", "reasoning-end",
     "text-start", "text-delta", "text-end"}

\* the line is no data line, is [DONE], is not JSON, or is an event of a type
\* the generator does not know
SkippedLine(line) ==
    \/ line.k \in {"blank", "done", "badjson"}
    \/ /\ line.k = "object"
       /\ DictGet(line.event, "type", "") \notin KnownEventTypes

\* a chunk that carries a data line, all of whose data lines are skipped
SkippedChunk(chunk) ==
    /\ \A i \in 1..Len(chunk) : SkippedLine(chunk[i])
    /\ \E i \in 1..Len(chunk) : chunk[i].k # "blank"

\* C19: when the upstream yields a chunk whose data lines are not valid JSON,
\* are "[DONE]" or carry an unknown event type, the generator forwards the
\* chunk and nothing else, creates no entry, leaves the collector (and with it
\* the first-token time), both buffers and first_text_logged as they were,
\* raises nothing and goes on to the drain that precedes the next chunk.
C19_SkippedLines ==
    [][\A r \in Requests :
          (/\ Len(upstream'[r]) = Len(upstream[r]) + 1
           /\ SkippedChunk(upstream'[r][Len(upstream'[r])]))
          => /\ out'[r] = Append(out[r], Primary(upstream'[r][Len(upstream'[r])]))
             /\ coll'[r] = coll[r]
             /\ serial'[r] = serial[r]
             /\ reasoning_buffers'[r] = reasoning_buffers[r]
             /\ text_buffers'[r] = text_buffers[r]
             /\ first_text_logged'[r] = first_text_logged[r]
             /\ pc'[r] = "drain"]_vars

\* a skipped chunk arrived between text-start and text-end, and the text of
\* the stream was logged and sent all the same
C19_Witness ==
    \E r \in Requests :
        /\ Len(upstream[r]) = 4
        /\ upstream[r][1] = SSE(EventLine(Ev("text-start", "s1")))
        /\ SkippedChunk(upstream[r][2])
        /\ upstream[r][3] = SSE(EventLine(EvDelta("text-delta", "s1", A)))
        /\ upstream[r][4] = SSE(EventLine(Ev("text-end", "s1")))
        /\ pc[r] = "done"
        /\ \E i \in 1..Len(out[r]) :
              /\ out[r][i].src = "brainlog"
              /\ out[r][i].chunk.data.type = "text"
        /\ \A i \in 1..4 : \E j \in 1..Len(out[r]) :
              /\ out[r][j].src = "upstream"
              /\ out[r][j].chunk = upstream[r][i]


\* ======================================================================
\* Previews: the entry factories applied to one string.
\* ======================================================================
MaxLen == 204   \* the longest string a preview is taken of

Letters == <<"a", "b", "c">>

\* a string of n characters whose i-th character tells i modulo 3
TextOf(n, shift) == [i \in 1..n |-> Letters[((i + shift) % 3) + 1]]

PreviewTexts == { TextOf(n, shift) : n \in 0..MaxLen, shift \in 0..2 }

InitPreview ==
    /\ CollectorInit
    /\ ChatInit
    /\ TapInit
    /\ LspInit
    /\ env = IdleEnv
    /\ given \in { Some(s) : s \in PreviewTexts }
    /\ gave = None

\* what an entry keeps of the string
Kept(fn, preview, length) == [fn |-> fn, preview |-> preview, length |-> length]

\* collector.add_input_entry(message)
PreviewInput ==
    /\ gave = None
    /\ LET c == add_input_entry(BrainLogCollector(0), <<1, 1>>, 0, given[1])
           details == c._entry_id_map[<<1, 1>>].details
       IN  gave' = Some(Kept("input", details["message_preview"], Some(details["length"])))
    /\ UNCHANGED <<given, collVars, chatVars, tapVars, lspVars>>

\* collector.add_thinking_entry(thinking_text)
PreviewThinking ==
    /\ gave = None
    /\ LET c == add_thinking_entry(BrainLogCollector(0), <<1, 1>>, 0, given[1])
           details == c._entry_id_map[<<1, 1>>].details
       IN  gave' = Some(Kept("thinking", details["preview"], Some(details["length"])))
    /\ UNCHANGED <<given, collVars, chatVars, tapVars, lspVars>>

\* collector.add_text_entry(text)
PreviewText ==
    /\ gave = None
    /\ LET c == add_text_entry(BrainLogCollector(0), <<1, 1>>, 0, given[1])
           details == c._entry_id_map[<<1, 1>>].details
       IN  gave' = Some(Kept("text", details["preview"], Some(details["length"])))
    /\ UNCHANGED <<given, collVars, chatVars, tapVars, lspVars>>

\* _get_result_preview(result) of a tool that returned a string
PreviewToolResult ==
    /\ gave = None
    /\ gave' = Some(Kept("tool_result", get_result_preview(given[1], TextPreviewLen), None))
    /\ UNCHANGED <<given, collVars, chatVars, tapVars, lspVars>>

NextPreview ==
    \/ PreviewInput
    \/ PreviewThinking
    \/ PreviewText
    \/ PreviewToolResult

SpecPreview == InitPreview /\ [][NextPreview]_vars

\* ---------------------------------------------------------------- C20
\* C20: a preview field with bound B (100 for the input message, 200 for
\* reasoning, text and tool results) holds the string itself when its length
\* L is at most B and otherwise its first B characters followed by "...", so
\* it is never longer than B + 3; the length recorded next to it is L.
C20_PreviewBound ==
    gave # None =>
        LET s == given[1]
            bound == IF gave[1].fn = "input" THEN 100 ELSE 200
            preview == gave[1].preview
        IN  /\ Len(s) <= bound => preview = s
            /\ Len(s) > bound =>
                  preview = [i \in 1..(bound + 3) |-> IF i <= bound THEN s[i] ELSE "."]
            /\ Len(preview) <= bound + 3
            /\ gave[1].length # None => gave[1].length[1] = Len(s)

\* a message of 150 characters was logged as the first 100 and "..."
C20_Witness ==
    /\ gave # None
    /\ gave[1].fn = "input"
    /\ Len(given[1]) = 150
    /\ Len(gave[1].preview) = 103
    /\ gave[1].length = Some(150)

\* ---------------------------------------------------------------- C21
\* the runtime has just called hook `hook` of the tap
Called(hook) ==
    /\ nHooks' = nHooks + 1
    /\ lastHook'[1].hook = hook

\* the entries this step added to the collector
AddedNow ==
    { collector'._entry_id_map[id] :
          id \in (DOMAIN collector'._entry_id_map) \ (DOMAIN collector._entry_id_map) }

\* C21: when the tap, with a collector set, handles a tool result whose call
\* id has no start time in _tool_start_times (none was recorded, or it was
\* consumed), the hook runs to its end, the one entry it adds is a tool-call
\* completion whose duration_ms is null, and that entry is sent.
C21_NoStartNoDuration ==
    [][(/\ Called("handle_function_tool_result")
        /\ stream._collector # None
        /\ lastHook'[1].arg.tool_call_id \notin DOMAIN stream._tool_start_times)
       => /\ Cardinality(AddedNow) = 1
          /\ \A e \in AddedNow :
                /\ e.type = "tool_call"
                /\ e.status \in {"success", "failure"}
                /\ e.duration_ms = None
                /\ emitted'[Len(emitted') - 1] = BrainLogItem(e)
          /\ emitted'[Len(emitted')] = ParentItem("tool-output-available")]_vars

\* the first hook after before_stream was a tool result, so no start time
\* had been recorded, and its completion entry went out without a duration
C21_Witness ==
    /\ stream._collector # None
    /\ nHooks = 1
    /\ lastHook[1].hook = "handle_function_tool_result"
    /\ Len(emitted) >= 2
    /\ emitted[Len(emitted) - 1].src = "brainlog"
    /\ emitted[Len(emitted) - 1].chunk.data.type = "tool_call"
    /\ emitted[Len(emitted) - 1].chunk.data.duration_ms = None

\* ---------------------------------------------------------------- C22
\* wrapped tools called inside a request and outside of any
InitTool ==
    /\ CollectorInit
    /\ ChatInit
    /\ TapInit
    /\ LspInit
    /\ PureIdle
    /\ env \in ToolProfiles

SpecTool == InitTool /\ [][Next]_vars

\* the entries this step added to the collector of request q
AddedTo(q) ==
    { coll'[q]._entry_id_map[id] :
          id \in (DOMAIN coll'[q]._entry_id_map) \ (DOMAIN coll[q]._entry_id_map) }

\* the step adds exactly entry e to the collector of request q, at the end of
\* its queue, and nothing to any other collector
AddsOnly(q, P(_)) ==
    /\ \A o \in Requests \ {q} : coll'[o] = coll[o]
    /\ Cardinality(AddedTo(q)) = 1
    /\ \A e \in AddedTo(q) :
          /\ P(e)
          /\ coll'[q]._pending = Append(coll[q]._pending, e.id)

\* C22: a wrapped tool call made while a collector is active adds one
\* TOOL_CALL entry with status PENDING when it is entered and one TOOL_RESULT
\* entry when its body ends: SUCCESS if the body returned, FAILURE with the
\* text of the exception (details.error = str(e)) if it raised, and then the
\* exception reaches the caller.  A call made with no collector active adds
\* no entry at all and ends like its body.
C22_TwoEntriesPerCall ==
    [][\A r \in Requests :
          /\ (tool'[r].calls = tool[r].calls + 1) =>
                IF ctx[r] # None
                    THEN AddsOnly(ctx[r][1],
                             LAMBDA e : e.type = "tool_call" /\ e.status = "pending")
                    ELSE coll' = coll
          /\ (tool[r].phase = "running" /\ tool'[r].phase = "idle") =>
                /\ tool'[r].ended # None
                /\ IF tool[r].collector # None
                      THEN AddsOnly(tool[r].collector[1],
                               LAMBDA e :
                                   /\ e.type = "tool_result"
                                   /\ IF tool'[r].ended[1].ok
                                         THEN e.status = "success"
                                         ELSE /\ e.status = "failure"
                                              /\ "error" \in DOMAIN e.details
                                              /\ e.details["error"] = tool'[r].ended[1].text)
                      ELSE coll' = coll]_vars

\* ---------------------------------------------------------------- C23
\* how many upstream chunks precede position j of the response
PrimariesBefore(o, j) == Cardinality({i \in 1..(j - 1) : o[i].src = "upstream"})

\* how many chunks of request r had arrived by time t
ArrivedBy(r, t) == Cardinality({i \in DOMAIN arrival[r] : arrival[r][i] <= t})

ToolTypes == {"tool_call", "tool_result"}

Without(d, k) == [x \in (DOMAIN d) \ {k} |-> d[x]]

\* C24: _tool_start_times changes in two hooks only.  A tool-call start puts
\* the call id in with the current time; a tool result takes its call id out
\* and, with a collector set, reports the time since that start as the
\* duration if the id was in the map and null if it was not, so that a second
\* result for an id, with no start in between, reports null.  Every other
\* step leaves the map as it is.
C24_StartTimes ==
    [][LET times == stream._tool_start_times
       IN  IF Called("handle_tool_call_start")
               THEN LET id == lastHook'[1].arg
                    IN  /\ DOMAIN stream'._tool_start_times = (DOMAIN times) \cup {id}
                        /\ stream'._tool_start_times[id] = now
                        /\ Without(stream'._tool_start_times, id) = Without(times, id)
           ELSE IF Called("handle_function_tool_result")
               THEN LET id == lastHook'[1].arg.tool_call_id
                    IN  /\ stream'._tool_start_times = Without(times, id)
                        /\ stream._collector # None =>
                              \A e \in AddedNow :
                                  e.duration_ms = IF id \in DOMAIN times
                                                      THEN Some((now - times[id]) * 1000)
                                                      ELSE None
                        /\ (/\ stream._collector # None
                            /\ lastHook # None
                            /\ lastHook[1].hook = "handle_function_tool_result"
                            /\ lastHook[1].arg.tool_call_id = id)
                           => \A e \in AddedNow : e.duration_ms = None
           ELSE stream'._tool_start_times = times]_vars

\* a call was started and two results came for it: the first carries a
\* duration, the second none, and the map is empty again
C24_Witness ==
    /\ stream._collector # None
    /\ nHooks = 3
    /\ lastHook[1].hook = "handle_function_tool_result"
    /\ stream._tool_start_times = [x \in {} |-> 0]
    /\ \E i, j \in DOMAIN emitted :
          /\ i < j
          /\ emitted[i].src = "brainlog"
          /\ emitted[i].chunk.data.type = "tool_call"
          /\ emitted[i].chunk.data.duration_ms # None
          /\ emitted[j].src = "brainlog"
          /\ emitted[j].chunk.data.type = "tool_call"
          /\ emitted[j].chunk.data.duration_ms = None

\* ---------------------------------------------------------------- C25
\* the BrainLogChunks of what is pending in the collector, in queue order
PendingItems ==
    [i \in DOMAIN collector._pending |->
        BrainLogItem(collector._entry_id_map[collector._pending[i]])]

\* the sequences of yielded items a and b are the same
SameItems(a, b) ==
    /\ Len(a) = Len(b)
    /\ \A i \in DOMAIN a :
          /\ a[i].src = b[i].src
          /\ a[i].chunk = b[i].chunk

\* C25: with a collector set, handle_tool_call_start stores the current time
\* under the call id, adds one ROUTING entry whose selected_tool is the tool
\* name, and yields what was pending, then that ROUTING entry, then the
\* parent's tool-call-start chunks; handle_tool_call_end adds nothing and
\* yields the parent's chunks and then what was pending.  Both leave nothing
\* pending.
C25_ToolCallHooks ==
    [][stream._collector # None =>
         /\ Called("handle_tool_call_start") =>
               /\ stream'._tool_start_times[lastHook'[1].arg] = now
               /\ Cardinality(AddedNow) = 1
               /\ \A e \in AddedNow :
                     /\ e.type = "routing"
                     /\ e.details["selected_tool"] = "get_skills"
                     /\ SameItems(emitted',
                                  emitted \o PendingItems \o <<BrainLogItem(e)>>
                                      \o ParentItems(<<"tool-input-start">>))
               /\ collector'._pending = <<>>
         /\ Called("handle_tool_call_end") =>
               /\ AddedNow = {}
               /\ SameItems(emitted',
                            emitted \o ParentItems(<<"tool-input-available">>)
                                \o PendingItems)
               /\ collector'._pending = <<>>]_vars

\* a tool call ended and its tool ran; the next call's end sent the tool's two
\* entries behind the parent's chunk; that call's tool ran too, and a third
\* call's start sent its entries and the ROUTING entry ahead of the parent's
C25_Witness ==
    /\ stream._collector # None
    /\ lastHook # None
    /\ lastHook[1].hook = "handle_tool_call_start"
    /\ Len(emitted) >= 7
    /\ LET n == Len(emitted)
       IN  /\ emitted[n] = ParentItem("tool-input-start")
           /\ emitted[n - 1].src = "brainlog"
           /\ emitted[n - 1].chunk.data.type = "routing"
           /\ emitted[n - 2].src = "brainlog"
           /\ emitted[n - 2].chunk.data.type = "tool_result"
           /\ emitted[n - 3].src = "brainlog"
           /\ emitted[n - 3].chunk.data.type = "tool_call"
           /\ emitted[n - 4].src = "brainlog"
           /\ emitted[n - 4].chunk.data.type = "tool_result"
           /\ emitted[n - 5].src = "brainlog"
           /\ emitted[n - 5].chunk.data.type = "tool_call"
           /\ emitted[n - 6] = ParentItem("tool-input-available")

\* ---------------------------------------------------------------- C26
\* text cut to its first 200 characters and "..." when it is longer
Cut200(text) ==
    IF Len(text) > 200 THEN [i \in 1..203 |-> IF i <= 200 THEN text[i] ELSE "."] ELSE text

\* what the claim says of the one entry e a tool result adds; preview(e, text)
\* says how the preview of the content is kept
ResultLogged(preview(_, _)) ==
    (Called("handle_function_tool_result") /\ stream._collector # None) =>
        LET result == lastHook'[1].arg
        IN  /\ Cardinality(AddedNow) = 1
            /\ \A e \in AddedNow :
                  /\ e.type = "tool_call"
                  /\ e.details["tool"] = IF result.tool_name # None
                                             THEN result.tool_name[1] ELSE "unknown"
                  /\ IF result.content # None
                        THEN /\ e.status = "success"
                             /\ preview(e, result.content[1])
                             /\ "error" \notin DOMAIN e.details
                        ELSE /\ e.status = "failure"
                             /\ "error" \in DOMAIN e.details
                             /\ e.details["error"] = <<"Tool execution failed">>
                             /\ "result_preview" \notin DOMAIN e.details
                  /\ \E i \in (Len(emitted) + 1)..Len(emitted') :
                        /\ emitted'[i].src = "brainlog"
                        /\ emitted'[i].chunk = BrainLogChunk_from_entry(e)
            /\ emitted'[Len(emitted')] = ParentItem("tool-output-available")
            /\ phase' = "streaming"

\* C26 (as stated): a tool result handled with a collector set adds exactly
\* one completion entry, which is sent: SUCCESS with the content cut to 200
\* characters as its preview when the result has a content attribute,
\* FAILURE with the error "Tool execution failed" otherwise; the tool name is
\* the result's, or "unknown" when it has none, and the stream goes on.
C26_ResultLogged ==
    [][ResultLogged(LAMBDA e, text :
                        /\ "result_preview" \in DOMAIN e.details
                        /\ e.details["result_preview"] = Cut200(text))]_vars

\* C26 (amended): the same, except that the preview is kept only when the
\* content is not the empty string; for empty content the entry is SUCCESS
\* with no result_preview.
C26_ResultLoggedNonEmpty ==
    [][ResultLogged(LAMBDA e, text :
                        IF text = <<>>
                            THEN "result_preview" \notin DOMAIN e.details
                            ELSE /\ "result_preview" \in DOMAIN e.details
                                 /\ e.details["result_preview"] = Cut200(text))]_vars

\* two results without a tool name were handled, one with empty content and
\* one with 201 characters of content: both are logged as SUCCESS under
\* "unknown", the first without a preview, the second with one of 203
\* characters
C26_Witness ==
    /\ stream._collector # None
    /\ lastHook # None
    /\ lastHook[1].hook = "handle_function_tool_result"
    /\ \E i, j \in DOMAIN emitted :
          /\ i < j
          /\ emitted[i].src = "brainlog"
          /\ emitted[i].chunk.data.type = "tool_call"
          /\ emitted[i].chunk.data.status = "success"
          /\ emitted[i].chunk.data.details["tool"] = "unknown"
          /\ "result_preview" \notin DOMAIN emitted[i].chunk.data.details
          /\ emitted[j].src = "brainlog"
          /\ emitted[j].chunk.data.type = "tool_call"
          /\ emitted[j].chunk.data.status = "success"
          /\ emitted[j].chunk.data.details["tool"] = "unknown"
          /\ "result_preview" \in DOMAIN emitted[j].chunk.data.details
          /\ Len(emitted[j].chunk.data.details["result_preview"]) = 203

\* ---------------------------------------------------------------- C27
\* what a drain yields: the pending entries if the stream has a collector
Drained == IF stream._collector # None THEN PendingItems ELSE <<>>

\* C27: before_stream yields the parent's start chunks and then the pending
\* brain-log chunks; before_response yields the pending brain-log chunks and
\* then the parent's step-start chunks.  The parent's chunks come out in the
\* parent's order, and with a collector set nothing is pending afterwards.
C27_StartHooks ==
    [][/\ (phase = "new" /\ phase' = "streaming") =>
             /\ SameItems(emitted', emitted \o ParentItems(<<"start">>) \o Drained)
             /\ parentOut' = parentOut \o <<"start">>
             /\ stream._collector # None => collector'._pending = <<>>
       /\ Called("before_response") =>
             /\ SameItems(emitted', emitted \o Drained \o ParentItems(<<"start-step">>))
             /\ parentOut' = parentOut \o <<"start-step">>
             /\ stream._collector # None => collector'._pending = <<>>]_vars

\* before_stream sent the INPUT entry behind the parent's start chunk, and a
\* later before_response sent the two entries of a tool ahead of the parent's
\* step-start chunk
C27_Witness ==
    /\ stream._collector # None
    /\ lastHook # None
    /\ lastHook[1].hook = "before_response"
    /\ Len(emitted) >= 5
    /\ emitted[1] = ParentItem("start")
    /\ emitted[2].src = "brainlog"
    /\ emitted[2].chunk.data.type = "input"
    /\ LET n == Len(emitted)
       IN  /\ emitted[n] = ParentItem("start-step")
           /\ emitted[n - 1].src = "brainlog"
           /\ emitted[n - 1].chunk.data.type = "tool_result"
           /\ emitted[n - 2].src = "brainlog"
           /\ emitted[n - 2].chunk.data.type = "tool_call"

\* ---------------------------------------------------------------- C28
\* C28: when the upstream of a request has failed (body_iterator raised, or
\* the client went away), the response carries no chunk the upstream did not
\* yield, a PERFORMANCE entry has been added, and its frame is the last
\* brain-log frame of the response.
C28_PerformanceOnError ==
    \A r \in Requests :
        upstate[r] = "error" =>
            LET frames == FramesOf(out[r])
                m == coll[r]._entry_id_map
            IN  /\ PrimaryOf(out[r]) = upstream[r]
                /\ \E id \in DOMAIN m : m[id].type = "performance"
                /\ frames # <<>>
                /\ frames[Len(frames)].type = "performance"

\* ---------------------------------------------------------------- C29
\* every entry collector c has ever been given
EntriesOf(c) == { c._entry_id_map[id] : id \in DOMAIN c._entry_id_map }

PendingOnlyToolCalls(c) ==
    \A e \in EntriesOf(c) :
        /\ e.status \in {"pending", "success", "failure"}
        /\ e.status = "pending" => e.type = "tool_call"

\* C29: in every collector, of a request or driven directly, an entry with
\* status PENDING is a TOOL_CALL entry; every entry of another type has
\* status SUCCESS or FAILURE.
C29_PendingIsToolCall ==
    /\ PendingOnlyToolCalls(collector)
    /\ \A r \in Requests : coll[r] # None => PendingOnlyToolCalls(coll[r])

\* a request's collector holds a PENDING tool call next to the entries of the
\* input, of a text and of a tool result
C29_Witness ==
    \E r \in Requests :
        /\ coll[r] # None
        /\ \E e \in EntriesOf(coll[r]) : e.type = "tool_call" /\ e.status = "pending"
        /\ \A type \in {"input", "text", "tool_result"} :
              \E e \in EntriesOf(coll[r]) : e.type = type /\ e.status # "pending"

\* ======================================================================
\* Frames: the two formatters of the program applied to one entry.
\* ======================================================================
\* entries of every kind the program creates
SampleEntries ==
    UNION { { InputLogEntry_create(<<1, 1>>, t, <<"h", "i">>, 2),
              InputLogEntry_create(<<1, 1>>, t, <<>>, 0),
              RoutingLogEntry_create(<<1, 1>>, t, Some("get_skills"), <<"why">>),
              ThinkingLogEntry_create(<<1, 1>>, t, A),
              TextLogEntry_create(<<1, 1>>, t, B, FALSE),
              ToolCallLogEntry_create_pending(<<1, 1>>, t, "get_skills", EmptyDict),
              ToolCallLogEntry_create(<<1, 1>>, t, "unknown", EmptyDict, None, "failure",
                                      Some(<<"Tool execution failed">>), None),
              ToolResultLogEntry_create(<<1, 1>>, t, "get_skills", Some(<<"o", "k">>),
                                        "success", None, Some(1000)),
              PerformanceLogEntry_create(<<1, 1>>, t, None, Some(1000)) } :
            t \in 0..MaxTime }

InitFrame ==
    /\ CollectorInit
    /\ ChatInit
    /\ TapInit
    /\ LspInit
    /\ env = IdleEnv
    /\ given \in { Some(e) : e \in SampleEntries }
    /\ gave = <<>>

\* the formatter named `by` has not encoded the entry yet
NotYet(by) == \A i \in DOMAIN gave : gave[i].by # by

\* main.py lines 273 / 312 / 337: _format_data_chunk(entry.to_stream_dict())
FrameByGenerator ==
    /\ NotYet("generator")
    /\ gave' = Append(gave, [by |-> "generator",
                             frame |-> format_data_chunk(to_stream_dict(given[1]))])
    /\ UNCHANGED <<given, collVars, chatVars, tapVars, lspVars>>

\* brain_log_stream.py line 65: BrainLogChunk.from_entries(entries)
FrameByTap ==
    /\ NotYet("tap")
    /\ gave' = Append(gave, [by |-> "tap", frame |-> BrainLogChunk_from_entry(given[1])])
    /\ UNCHANGED <<given, collVars, chatVars, tapVars, lspVars>>

NextFrame ==
    \/ FrameByGenerator
    \/ FrameByTap

SpecFrame == InitFrame /\ [][NextFrame]_vars

\* ---------------------------------------------------------------- C30
FrameFields == {"id", "timestamp", "type", "title", "details", "status", "duration_ms"}

\* the tag is "data-" followed by a name
HasDataPrefix(tag) == \E name \in {"brainlog", "brain-log"} : tag = "data-" \o name

\* C30: a formatter turns an entry into one frame whose payload has exactly
\* the fields id, timestamp, type, title, details, status and duration_ms,
\* with the entry's values and the timestamp in milliseconds; the frame's
\* type tag starts with "data-", and all formatters of the program use the
\* same tag.
C30_OneFrameOneTag ==
    /\ \A i \in DOMAIN gave :
          LET e == given[1]
              f == gave[i].frame
          IN  /\ DOMAIN f = {"type", "data"}
              /\ HasDataPrefix(f.type)
              /\ DOMAIN f.data = FrameFields
              /\ f.data.id = e.id
              /\ f.data.timestamp = e.timestamp * 1000
              /\ f.data.type = e.type
              /\ f.data.title = e.title
              /\ f.data.details = e.details
              /\ f.data.status = e.status
              /\ f.data.duration_ms = e.duration_ms
    /\ \A i, j \in DOMAIN gave : gave[i].frame.type = gave[j].frame.type

\* ---------------------------------------------------------------- C31
\* positions of the response that hold a frame of the given type and status
FramesAt(frames, type, statuses) ==
    {i \in DOMAIN frames : frames[i].type = type /\ frames[i].status \in statuses}

\* C31: when the response has ended, every TOOL_CALL frame that was sent
\* with status PENDING is followed, before the PERFORMANCE frame, by a frame
\* with the same id and status SUCCESS or FAILURE, and no TOOL_CALL entry of
\* the request's collector is PENDING any more.
C31_PendingAmended ==
    \A r \in Requests :
        pc[r] = "done" =>
            LET frames == FramesOf(out[r])
            IN  /\ \A i \in FramesAt(frames, "tool_call", {"pending"}) :
                      \E j \in DOMAIN frames :
                          /\ j > i
                          /\ frames[j].id = frames[i].id
                          /\ frames[j].status \in {"success", "failure"}
                          /\ \E k \in FramesAt(frames, "performance", {"success"}) : j < k
                /\ \A e \in EntriesOf(coll[r]) : e.type = "tool_call" => e.status # "pending"

\* C31 as the code has it: a logged tool call gives two entries.  When the
\* response has ended, every id is sent once only; a TOOL_CALL frame has
\* status PENDING, its entry in the collector is PENDING still, and it is
\* followed, before the PERFORMANCE frame, by a TOOL_RESULT frame of the same
\* tool with another id and status SUCCESS or FAILURE; every TOOL_RESULT
\* frame has such a TOOL_CALL frame before it, one for one.
C31_PendingThenResult ==
    \A r \in Requests :
        pc[r] = "done" =>
            LET frames == FramesOf(out[r])
                calls == FramesAt(frames, "tool_call", {"pending", "success", "failure"})
                results == FramesAt(frames, "tool_result", {"pending", "success", "failure"})
            IN  /\ \A i, j \in DOMAIN frames : frames[i].id = frames[j].id => i = j
                /\ Cardinality(calls) = Cardinality(results)
                /\ \A i \in calls :
                      /\ frames[i].status = "pending"
                      /\ coll[r]._entry_id_map[frames[i].id].status = "pending"
                      /\ \E j \in results :
                            /\ j > i
                            /\ frames[j].status \in {"success", "failure"}
                            /\ frames[j].details["tool"] = frames[i].details["tool"]
                            /\ \E k \in FramesAt(frames, "performance", {"success"}) : j < k
                /\ \A j \in results : \E i \in calls : i < j

\* a response has ended that carries the two frames of a tool call
C31_Witness ==
    \E r \in Requests :
        /\ pc[r] = "done"
        /\ FramesAt(FramesOf(out[r]), "tool_call", {"pending"}) # {}
        /\ FramesAt(FramesOf(out[r]), "tool_result", {"failure"}) # {}

\* ---------------------------------------------------------------- C32
\* the event of a chunk that carries one event of the given types
OneEvent(chunk, types) ==
    /\ Len(chunk) = 3
    /\ chunk[1].k = "object"
    /\ chunk[2] = Blank
    /\ chunk[3] = Blank
    /\ DictGet(chunk[1].event, "type", "") \in types

\* request r takes a chunk with one reasoning-delta, reasoning-end, text-delta
\* or text-end event whose id has no open buffer
OrphanStep(r) ==
    /\ Len(upstream'[r]) = Len(upstream[r]) + 1
    /\ LET chunk == upstream'[r][Len(upstream'[r])]
       IN  \/ /\ OneEvent(chunk, {"reasoning-delta", "reasoning-end"})
              /\ ~BufHas(reasoning_buffers[r], DictGet(chunk[1].event, "id", ""))
           \/ /\ OneEvent(chunk, {"text-delta", "text-end"})
              /\ ~BufHas(text_buffers[r], DictGet(chunk[1].event, "id", ""))

\* C32: a reasoning-delta, reasoning-end, text-delta or text-end event whose
\* id has no open buffer is forwarded, opens no buffer and adds no entry.
\* The collector stays as it was, except that a text-delta stores the time
\* of the first token when none was stored before.
C32_OrphanEvents ==
    [][\A r \in Requests :
          OrphanStep(r) =>
              LET chunk == upstream'[r][Len(upstream'[r])]
                  isTextDelta == chunk[1].event["type"] = "text-delta"
              IN  /\ out'[r] = Append(out[r], Primary(chunk))
                  /\ reasoning_buffers'[r] = reasoning_buffers[r]
                  /\ text_buffers'[r] = text_buffers[r]
                  /\ serial'[r] = serial[r]
                  /\ \A f \in (DOMAIN coll[r]) \ {"first_token_time"} :
                        coll'[r][f] = coll[r][f]
                  /\ IF isTextDelta /\ coll[r].first_token_time = None
                        THEN coll'[r].first_token_time = Some(clk'[r])
                        ELSE coll'[r].first_token_time = coll[r].first_token_time
                  /\ first_text_logged'[r] = (first_text_logged[r] \/ isTextDelta)
                  /\ pc'[r] = "drain"]_vars

\* a text-delta and a text-end for an id that was never opened have been
\* taken: the first stored the time of the first token, no buffer is open
C32_Witness ==
    \E r \in Requests :
        /\ Len(upstream[r]) = 2
        /\ OneEvent(upstream[r][1], {"text-delta"})
        /\ OneEvent(upstream[r][2], {"text-end"})
        /\ coll[r].first_token_time = Some(arrival[r][1])
        /\ text_buffers[r] = EmptyBuffers
        /\ DOMAIN coll[r]._entry_id_map = {<<r, 1>>}

\* ---------------------------------------------------------------- C33
\* C33: a request that has ended, in whichever way (the stream ran to its
\* end, dispatch_request gave a plain response that the handler returned,
\* the upstream failed or the client went away), has cleared the attribution
\* context it entered.
C33_AttributionCleared ==
    \A r \in Requests :
        pc[r] \in {"done", "plain", "failed"} => ~attribution[r]

\* ======================================================================
\* The LSP client at work.
\* ======================================================================
\* a method of the client is called
LspCall(op) ==
    /\ lspTask.pc = "idle"
    /\ nLspCalls < MaxLspCalls
    /\ nLspCalls' = nLspCalls + 1

\* the method returns ret at once / after it has waited
LspReturn(op, ret) ==
    /\ lspTask' = [op |-> op, pc |-> "idle", result |-> "null"]
    /\ lspLog' = [op |-> op, ret |-> ret, call |-> nLspCalls']

\* the method goes on to wait for the response in _send_request
LspAwait(op) == lspTask' = [op |-> op, pc |-> "reading", result |-> "null"]

\* _send_message: stdin.write / flush raise when the process has gone
CanWrite == client.process # None /\ server.alive

\* lsp_client.py lines 170-203: start, up to the read of the response to
\* "initialize"
LspStart ==
    /\ LspCall("start")
    /\ client.process = None
    /\ \E found \in BOOLEAN :
         IF found
             THEN /\ client' = [client EXCEPT !.process = Some("p"), !.request_id = @ + 1]
                  /\ server' = [Popen EXCEPT
                                   !.stdin = <<Request(client.request_id + 1, "initialize")>>]
                  /\ LspAwait("start")
                  /\ UNCHANGED lspLog
             ELSE /\ LspReturn("start", "False")        \* FileNotFoundError
                  /\ UNCHANGED <<client, server>>
    /\ UNCHANGED <<nNoise, spins, collVars, chatVars, tapVars, pureVars, mgrVars>>

\* process.terminate(); process = None; _initialized = False
Terminated(c) == [c EXCEPT !.process = None, !._initialized = FALSE]

\* lsp_client.py lines 205-215: stop, up to the read of the response to
\* "shutdown"
LspStop ==
    /\ LspCall("stop")
    /\ IF client.process = None
          THEN /\ LspReturn("stop", "None")
               /\ UNCHANGED <<client, server>>
          ELSE IF CanWrite
              THEN /\ client' = [client EXCEPT !.request_id = @ + 1]
                   /\ server' = [server EXCEPT
                                    !.stdin = Append(@, Request(client.request_id + 1, "shutdown"))]
                   /\ LspAwait("stop")
                   /\ UNCHANGED lspLog
              ELSE /\ client' = Terminated([client EXCEPT !.request_id = @ + 1])
                   /\ server' = [server EXCEPT !.alive = FALSE]
                   /\ LspReturn("stop", "None")         \* except Exception: pass
    /\ UNCHANGED <<nNoise, spins, collVars, chatVars, tapVars, pureVars, mgrVars>>

\* lsp_client.py lines 340-381 (and the six other queries, to line 698): a
\* query, up to the read of the response
LspQuery(q) ==
    /\ LspCall(q)
    /\ IF ~client._initialized
          THEN /\ LspReturn(q, Empty(q))
               /\ UNCHANGED <<client, server>>
          ELSE \E readable \in BOOLEAN :
                 IF q \in NeedsDocument /\ (~readable \/ ~CanWrite)
                     THEN /\ LspReturn(q, Empty(q))     \* read_text or didOpen raised
                          /\ UNCHANGED <<client, server>>
                     ELSE /\ client' = [client EXCEPT !.request_id = @ + 1]
                          /\ IF CanWrite
                                THEN /\ server' = [server EXCEPT !.stdin =
                                          @ \o (IF q \in NeedsDocument
                                                   THEN <<Notification("textDocument/didOpen")>>
                                                   ELSE <<>>)
                                            \o <<Request(client.request_id + 1, q)>>]
                                     /\ LspAwait(q)
                                     /\ UNCHANGED lspLog
                                ELSE /\ LspReturn(q, Empty(q))
                                     /\ UNCHANGED server
    /\ UNCHANGED <<nNoise, spins, collVars, chatVars, tapVars, pureVars, mgrVars>>

\* lsp_client.py lines 229-273: one turn of the loop of _send_request, that
\* is one _read_message.  With nothing to read and the process alive,
\* readline blocks; at the end of the output _read_message returns None and
\* the loop goes round, with nothing changed but the count of the rounds
LspRead ==
    /\ lspTask.pc = "reading"
    /\ IF server.stdout # <<>>
          THEN LET response == Head(server.stdout)
               IN  /\ server' = [server EXCEPT !.stdout = Tail(@)]
                   /\ lspTask' = IF response.id = client.request_id
                                    THEN [lspTask EXCEPT !.pc = "answered",
                                             !.result = IF response.kind = "error"
                                                           THEN "null" ELSE response.result]
                                    ELSE lspTask
                   /\ UNCHANGED spins
          ELSE /\ ~server.alive
               /\ spins' = (spins + 1) % (MaxSpins + 1)
               /\ UNCHANGED <<server, lspTask>>
    /\ UNCHANGED <<client, lspLog, nLspCalls, nNoise, collVars, chatVars, tapVars, pureVars, mgrVars>>

\* _send_request has returned: the rest of start (lines 187-203), of stop
\* (lines 210-215) and of a query (lines 372-381)
LspContinue ==
    /\ lspTask.pc = "answered"
    /\ UNCHANGED nLspCalls
    /\ LET op == lspTask.op
       IN  CASE op = "start" ->
                  IF lspTask.result = "data"
                      THEN /\ client' = [client EXCEPT !._initialized = TRUE]
                           /\ IF CanWrite
                                 THEN /\ server' = [server EXCEPT !.stdin =
                                                       Append(@, Notification("initialized"))]
                                      /\ LspReturn(op, "True")
                                 ELSE /\ LspReturn(op, "False")   \* except Exception
                                      /\ UNCHANGED server
                      ELSE /\ LspReturn(op, "False")
                           /\ UNCHANGED <<client, server>>
             [] op = "stop" ->
                  /\ client' = Terminated(client)
                  /\ server' = [server EXCEPT
                                   !.stdin = IF CanWrite THEN Append(@, Notification("exit")) ELSE @,
                                   !.alive = FALSE]
                  /\ LspReturn(op, "None")
             [] OTHER ->
                  /\ IF op \in NeedsDocument
                        THEN IF CanWrite
                                 THEN /\ server' = [server EXCEPT !.stdin =
                                            Append(@, Notification("textDocument/didClose"))]
                                      /\ LspReturn(op, IF lspTask.result = "data"
                                                           THEN Full(op) ELSE Empty(op))
                                 ELSE /\ LspReturn(op, Empty(op))
                                      /\ UNCHANGED server
                        ELSE /\ LspReturn(op, IF lspTask.result = "data"
                                                  THEN Full(op) ELSE Empty(op))
                             /\ UNCHANGED server
                  /\ UNCHANGED client
    /\ UNCHANGED <<nNoise, spins, collVars, chatVars, tapVars, pureVars, mgrVars>>

\* the ids of the requests the server has read and not answered
Unanswered == {server.stdin[i].id : i \in DOMAIN server.stdin} \ (0..server.answered)

\* the server answers the oldest request it has not answered
ServerAnswer ==
    /\ server.alive
    /\ Unanswered # {}
    /\ LET id == CHOOSE x \in Unanswered : \A y \in Unanswered : x <= y
       IN  \E answer \in {Response(id, "result", "data"), Response(id, "result", "null"),
                          Response(id, "error", "null")} :
             server' = [server EXCEPT !.stdout = Append(@, answer), !.answered = id]
    /\ UNCHANGED <<client, lspTask, lspLog, nLspCalls, nNoise, spins,
                   collVars, chatVars, tapVars, pureVars, mgrVars>>

\* the server sends a notification, or a request of its own with an id that
\* is not the client's
ServerNoise ==
    /\ server.alive
    /\ nNoise < MaxNoise
    /\ \E id \in {0, client.request_id + 1} :
         server' = [server EXCEPT !.stdout = Append(@, Response(id, "result", "data"))]
    /\ nNoise' = nNoise + 1
    /\ UNCHANGED <<client, lspTask, lspLog, nLspCalls, spins,
                   collVars, chatVars, tapVars, pureVars, mgrVars>>

\* the server process exits (what it has written can still be read)
ServerExit ==
    /\ server.alive
    /\ server' = [server EXCEPT !.alive = FALSE]
    /\ UNCHANGED <<client, lspTask, lspLog, nLspCalls, nNoise, spins,
                   collVars, chatVars, tapVars, pureVars, mgrVars>>

InitLsp ==
    /\ CollectorInit
    /\ ChatInit
    /\ TapInit
    /\ LspInit
    /\ PureIdle
    /\ env = IdleEnv

NextLsp ==
    \/ LspStart
    \/ LspStop
    \/ \E q \in Queries : LspQuery(q)
    \/ LspRead
    \/ LspContinue
    \/ ServerAnswer
    \/ ServerNoise
    \/ ServerExit

SpecLsp == InitLsp /\ [][NextLsp]_vars


\* the client keeps running and a server that is alive answers
SpecLspLive ==
    /\ InitLsp
    /\ [][NextLsp]_vars
    /\ WF_vars(LspRead)
    /\ WF_vars(LspContinue)
    /\ WF_vars(ServerAnswer)

\* ---------------------------------------------------------------- C34
\* the method op is called in this step / returns in this step
LspCalled(op) == nLspCalls' = nLspCalls + 1 /\ lspTask'.op = op
LspReturned(op) == lspLog' # lspLog /\ lspLog'.op = op

\* C34: a query of a client that is not initialized returns the empty result
\* at once and sends no message; _initialized becomes true only as start
\* returns True; when stop returns the client is not initialized and has no
\* process, also when the shutdown request raised.
C34_NotInitialized ==
    [][/\ \A q \in Queries :
             (LspCalled(q) /\ ~client._initialized) =>
                 /\ LspReturned(q)
                 /\ lspLog'.ret = Empty(q)
                 /\ server'.stdin = server.stdin
                 /\ client' = client
       /\ (client'._initialized /\ ~client._initialized) =>
             (LspReturned("start") /\ lspLog'.ret = "True")
       /\ LspReturned("stop") =>
             (~client'._initialized /\ client'.process = None)]_vars

\* ---------------------------------------------------------------- C35
\* C35: _send_request returns for every request.  A response with the id of
\* the request ends the wait, with its result, or with None when it carries
\* an error; a message with another id is dropped and the wait goes on; and
\* the wait ends also when the server exits or closes its output before it
\* has answered.
C35_SendRequestReturns ==
    /\ [][(lspTask.pc = "reading" /\ server.stdout # <<>>
             /\ server'.stdout = Tail(server.stdout)) =>
             LET response == Head(server.stdout)
             IN  IF response.id = client.request_id
                     THEN /\ lspTask'.pc = "answered"
                          /\ lspTask'.result = IF response.kind = "error"
                                                  THEN "null" ELSE response.result
                     ELSE lspTask' = lspTask]_vars
    /\ (lspTask.pc = "reading") ~> (lspTask.pc # "reading")

\* ======================================================================
\* get_lsp_manager and shutdown_lsp_manager, called by coroutines of one
\* event loop.
\* ======================================================================
\* Does the await at this point hand the event loop to another coroutine?
\* Every await of get_lsp_manager and shutdown_lsp_manager ends in start or
\* stop of a client, which wait in the loop of _send_request with blocking
\* reads and await no future: none of them suspends.
Suspends_at_initialize(point) == point = "initialize"

Suspends(point) == FALSE

\* the event loop runs t: t holds the loop, or nobody does
CanRun(t) == running = None \/ running = Some(t)

\* after an await at `point` of coroutine t
Awaited(t, point) == running' = IF Suspends(point) THEN None ELSE Some(t)

\* the call of coroutine t is over
Finish(t, ret, raised) ==
    /\ tasks' = [tasks EXCEPT ![t].pc = "done", ![t].ret = ret, ![t].raised = raised]
    /\ running' = None

\* lsp_client.py lines 782-799, to the await of initialize()
GetLspManager(t) ==
    /\ tasks[t].pc = "ready"
    /\ running = None
    /\ \E workspace_root \in {None, Some("/ws")} :
         IF lsp_manager = None
             THEN IF workspace_root = None
                      THEN /\ tasks' = [tasks EXCEPT ![t].op = "get", ![t].pc = "done",
                                                     ![t].raised = TRUE]    \* ValueError
                           /\ UNCHANGED <<lsp_manager, managers, running>>
                      ELSE /\ managers' = Append(managers, LSPManager(workspace_root[1]))
                           /\ lsp_manager' = Some(Len(managers) + 1)
                           /\ tasks' = [tasks EXCEPT ![t].op = "get", ![t].pc = "start_ts",
                                                     ![t].workspace_root = workspace_root,
                                                     ![t].self = Len(managers) + 1]
                           /\ Awaited(t, "initialize")
             ELSE /\ tasks' = [tasks EXCEPT ![t].op = "get", ![t].pc = "done",
                                            ![t].workspace_root = workspace_root,
                                            ![t].ret = lsp_manager]
                  /\ UNCHANGED <<lsp_manager, managers, running>>
    /\ UNCHANGED <<clientVars, collVars, chatVars, tapVars, pureVars>>

\* lsp_client.py lines 730-742: initialize() starts the client of one server
\* and keeps it if start returned True
InitializeStart(t) ==
    /\ tasks[t].pc \in {"start_ts", "start_py"}
    /\ CanRun(t)
    /\ \E success \in BOOLEAN :
         LET server_type == IF tasks[t].pc = "start_ts" THEN "typescript" ELSE "python"
         IN  managers' = [managers EXCEPT ![tasks[t].self]._clients =
                             IF success THEN @ \cup {server_type} ELSE @]
    /\ tasks' = [tasks EXCEPT ![t].pc = IF @ = "start_ts" THEN "start_py" ELSE "started"]
    /\ Awaited(t, "start")
    /\ UNCHANGED <<lsp_manager, clientVars, collVars, chatVars, tapVars, pureVars>>

\* lsp_client.py lines 744-745 and 799: initialize() ends, get_lsp_manager
\* returns the global
InitializeEnd(t) ==
    /\ tasks[t].pc = "started"
    /\ CanRun(t)
    /\ managers' = [managers EXCEPT ![tasks[t].self]._initialized = TRUE]
    /\ Finish(t, lsp_manager, FALSE)
    /\ UNCHANGED <<lsp_manager, clientVars, collVars, chatVars, tapVars, pureVars>>

\* lsp_client.py lines 802-806, to the await of shutdown()
ShutdownLspManager(t) ==
    /\ tasks[t].pc = "ready"
    /\ running = None
    /\ IF lsp_manager # None
          THEN /\ tasks' = [tasks EXCEPT ![t].op = "shutdown", ![t].pc = "stopping",
                                         ![t].self = lsp_manager[1]]
               /\ Awaited(t, "shutdown")
          ELSE /\ tasks' = [tasks EXCEPT ![t].op = "shutdown", ![t].pc = "done"]
               /\ UNCHANGED running
    /\ UNCHANGED <<lsp_manager, managers, clientVars, collVars, chatVars, tapVars, pureVars>>

\* lsp_client.py lines 747-752 and 807: the clients are stopped and
\* dropped, the global is reset
ShutdownEnd(t) ==
    /\ tasks[t].pc = "stopping"
    /\ CanRun(t)
    /\ managers' = [managers EXCEPT ![tasks[t].self]._clients = {},
                                    ![tasks[t].self]._initialized = FALSE,
                                    ![tasks[t].self].live = FALSE]
    /\ lsp_manager' = None
    /\ Finish(t, None, FALSE)
    /\ UNCHANGED <<clientVars, collVars, chatVars, tapVars, pureVars>>

InitManager ==
    /\ CollectorInit
    /\ ChatInit
    /\ TapInit
    /\ LspInit
    /\ PureIdle
    /\ env = IdleEnv

NextManager ==
    \E t \in Tasks :
        \/ GetLspManager(t)
        \/ InitializeStart(t)
        \/ InitializeEnd(t)
        \/ ShutdownLspManager(t)
        \/ ShutdownEnd(t)

SpecManager == InitManager /\ [][NextManager]_vars


\* ---------------------------------------------------------------- C36
\* coroutine t calls get_lsp_manager in this step / its call ends in it
GetCalled(t) == tasks[t].pc = "ready" /\ tasks'[t].op = "get"
CallEnded(t, op) == tasks[t].pc # "done" /\ tasks'[t].pc = "done" /\ tasks'[t].op = op

\* C36: at every moment at most one LSPManager exists that was not shut
\* down, and it is the global one.  A call of get_lsp_manager that finds no
\* manager raises ValueError and creates nothing when it has no
\* workspace_root, and creates a new manager otherwise; a call that finds
\* one creates nothing.  Every call that returns, returns a manager whose
\* initialize() has completed, whatever other coroutines have called in the
\* meantime.  shutdown_lsp_manager leaves no manager, so that the next call
\* creates a new one.
C36_OneManager ==
    /\ [](/\ \A i, j \in DOMAIN managers :
                (managers[i].live /\ managers[j].live) => i = j
          /\ \A i \in DOMAIN managers : managers[i].live => lsp_manager = Some(i))
    /\ [][\A t \in Tasks :
             /\ GetCalled(t) =>
                   IF lsp_manager # None
                       THEN managers' = managers /\ lsp_manager' = lsp_manager
                       ELSE IF tasks'[t].workspace_root = None
                           THEN /\ tasks'[t].raised
                                /\ tasks'[t].pc = "done"
                                /\ managers' = managers
                                /\ lsp_manager' = None
                           ELSE /\ managers' = Append(managers, LSPManager("/ws"))
                                /\ lsp_manager' = Some(Len(managers'))
             /\ (CallEnded(t, "get") /\ ~tasks'[t].raised) =>
                   /\ tasks'[t].ret # None
                   /\ tasks'[t].ret = lsp_manager'
                   /\ managers'[tasks'[t].ret[1]]._initialized
             /\ CallEnded(t, "shutdown") => lsp_manager' = None]_vars

\* a call without workspace_root has raised, a call has created the manager
\* while others stood ready, and a later call has got the same manager
C36_Witness ==
    \E t1, t2, t3 \in Tasks :
        /\ tasks[t1].raised
        /\ tasks[t2].self = 1 /\ tasks[t2].ret = Some(1)
        /\ tasks[t3].op = "get" /\ tasks[t3].self = 0 /\ tasks[t3].ret = Some(1)
        /\ managers[1]._initialized


\* ======================================================================
\* The circular-dependency search of get_dependency_graph.
\* ======================================================================
MaxNodes == 3

Nodes == 1..MaxNodes

\* the elements of S as a list, ascending or descending
RECURSIVE ListOf(_, _)
ListOf(S, descending) ==
    IF S = {}
        THEN <<>>
        ELSE LET x == CHOOSE y \in S : \A z \in S : IF descending THEN z <= y ELSE y <= z
             IN  <<x>> \o ListOf(S \ {x}, descending)

\* the import maps: every file with the list of the files it imports, and
\* the order in which the set `nodes` is iterated
ImportMaps ==
    { [imports_map |-> [n \in Nodes |-> ListOf(targets[n], descending)],
       nodes |-> ListOf(Nodes, descending)] :
          targets \in [Nodes -> SUBSET Nodes], descending \in BOOLEAN }

\* path.index(current)
IndexOf(path, current) == CHOOSE i \in DOMAIN path : path[i] = current /\ \A j \in 1..(i - 1) : path[j] # current

InPath(path, current) == \E i \in DOMAIN path : path[i] = current

\* The locals the closure dfs works on: visited, path, circular; found is
\* what the last call returned, calls counts the calls of dfs (history)
RECURSIVE dfs(_, _, _)
RECURSIVE dfs_targets(_, _, _, _)

\* architecture.py lines 594-596: for target in imports_map.get(current, [])
dfs_targets(imports_map, st, targets, i) ==
    IF i > Len(targets)
        THEN [st EXCEPT !.path = SubSeq(@, 1, Len(@) - 1), !.found = FALSE]
        ELSE LET st1 == dfs(imports_map, st, targets[i])
             IN  IF st1.found THEN st1 ELSE dfs_targets(imports_map, st1, targets, i + 1)

\* architecture.py lines 583-599
dfs_visited_first(imports_map, st, current) ==
    LET st0 == [st EXCEPT !.calls = @ + 1]
    IN  IF current \in st0.visited
            THEN [st0 EXCEPT !.found = FALSE]
            ELSE IF InPath(st0.path, current)
                THEN [st0 EXCEPT !.circular = Append(@,
                                     SubSeq(st0.path, IndexOf(st0.path, current), Len(st0.path))
                                         \o <<current>>),
                                 !.found = TRUE]
                ELSE dfs_targets(imports_map,
                         [st0 EXCEPT !.visited = @ \cup {current}, !.path = Append(@, current)],
                         imports_map[current], 1)

dfs(imports_map, st, current) ==
    LET st0 == [st EXCEPT !.calls = @ + 1]
    IN  IF InPath(st0.path, current)
            THEN [st0 EXCEPT !.circular = Append(@,
                                 SubSeq(st0.path, IndexOf(st0.path, current), Len(st0.path))
                                     \o <<current>>),
                             !.found = TRUE]
            ELSE IF current \in st0.visited
                THEN [st0 EXCEPT !.found = FALSE]
                ELSE dfs_targets(imports_map,
                         [st0 EXCEPT !.visited = @ \cup {current}, !.path = Append(@, current)],
                         imports_map[current], 1)

\* architecture.py lines 578-601: for node in nodes, with fresh visited and path
RECURSIVE find_circular(_, _, _, _)
find_circular(imports_map, nodes, i, st) ==
    IF i > Len(nodes)
        THEN st
        ELSE find_circular(imports_map, nodes, i + 1,
                 dfs(imports_map, [st EXCEPT !.visited = {}, !.path = <<>>], nodes[i]))

\* architecture.py line 608: circular_dependencies=circular[:10]
circular_dependencies(g) ==
    LET st == find_circular(g.imports_map, g.nodes, 1,
                  [visited |-> {}, path |-> <<>>, circular |-> <<>>, found |-> FALSE,
                   calls |-> 0])
    IN  [circular |-> SubSeq(st.circular, 1, IF Len(st.circular) < 10 THEN Len(st.circular) ELSE 10),
         calls |-> st.calls]

InitCycles ==
    /\ CollectorInit
    /\ ChatInit
    /\ TapInit
    /\ LspInit
    /\ env = IdleEnv
    /\ given \in { Some(g) : g \in ImportMaps }
    /\ gave = None

GetDependencyGraph ==
    /\ gave = None
    /\ gave' = Some(circular_dependencies(given[1]))
    /\ UNCHANGED <<given, collVars, chatVars, tapVars, lspVars>>

NextCycles == GetDependencyGraph

SpecCycles == InitCycles /\ [][NextCycles]_vars

\* ---------------------------------------------------------------- C37
\* a imports b
Imports(g, a, b) == \E i \in DOMAIN g.imports_map[a] : g.imports_map[a][i] = b

\* the files reached from S by following k imports or fewer
RECURSIVE Reach(_, _, _)
Reach(g, S, k) ==
    IF k = 0 THEN S ELSE Reach(g, S \cup {b \in Nodes : \E a \in S : Imports(g, a, b)}, k - 1)

\* some file reaches itself again by following imports
HasCycle(g) ==
    \E a \in Nodes : a \in Reach(g, {b \in Nodes : Imports(g, a, b)}, MaxNodes)

Edges(g) == {ab \in Nodes \X Nodes : Imports(g, ab[1], ab[2])}

\* C37: on every import map the search ends, after at most one call of dfs
\* for each start file and each import followed from it; every list it
\* reports is a cycle of the map (it starts and ends with the same file and
\* each file imports the next one); and it reports a cycle whenever the map
\* has one.
C37_CircularSearch ==
    gave # None =>
        LET g == given[1]
            circular == gave[1].circular
        IN  /\ gave[1].calls <= MaxNodes * (1 + Cardinality(Edges(g)))
            /\ \A k \in DOMAIN circular :
                  LET c == circular[k]
                  IN  /\ Len(c) >= 2
                      /\ c[1] = c[Len(c)]
                      /\ \A i \in 1..(Len(c) - 1) : Imports(g, c[i], c[i + 1])
            /\ HasCycle(g) => circular # <<>>

\* the search has reported the cycle of a map whose only cycle does not pass
\* through the first file: 1 imports 2, 2 and 3 import each other
C37_Witness ==
    /\ gave # None
    /\ given[1].imports_map = <<<<2>>, <<3>>, <<2>>>> @@ [n \in Nodes |-> <<>>]
    /\ given[1].nodes[1] = 1
    /\ gave[1].circular[1] = <<2, 3, 2>>

====
